---- MODULE Spec2Model ----
(***************************************************************************)
(* Model of the multi-line phone console: PhoneLine (src/src/phone_line.py) *)
(* and the Baresip supervisor and engine (src/src/sip_engine.py).           *)
(*                                                                          *)
(* Python values are records [t, s]: t is the Python type and s the text of *)
(* a str as a sequence of one-character strings.  A time stamp is an        *)
(* integer number of seconds; None is 0 for a time stamp, as time.time() is *)
(* positive and the code tests time stamps for truth only.                  *)
(***************************************************************************)
EXTENDS Integers, Sequences, FiniteSets, TLC

VARIABLES
    lines,              \* SIPEngine.lines: line id -> PhoneLine fields
    engine,             \* SIPEngine: num_lines, is_running, baresip_processes
    bp,                 \* line id -> that line's BaresipProcess fields; stdin and stdout
                        \* are the pipes of its Popen object: none, open, closed
    os,                 \* line id -> the external baresip process: none, alive, exited
    reader,             \* line id -> position of the monitor thread in _monitor_output
    callers,            \* control threads calling into SIPEngine: position and locals
    now,                \* time.time(), whole seconds
    last,               \* the last PhoneLine operation completed by a direct caller
    router,             \* AudioRouter: is_running, routing_map and the test tone fields
    audio               \* around the router: the tone generator processes (pid = index),
                        \* the start_in_thread threads, and the update_routing calls
                        \* of control threads that returned True, in order
VARIABLES
    pipe                \* line id -> the calls behind the lines of baresip's output:
                        \* on (the calls are told apart in this run), dials (dial
                        \* commands written so far; call k is the k-th), ev (the call
                        \* that the event in the monitor thread's hands belongs to, 0
                        \* for none), done (the calls whose closed or hangup event
                        \* has been handled to the end)

vars == <<lines, engine, bp, os, reader, callers, now, last, router, audio, pipe>>
audioVars == <<router, audio>>

\* ------------------------------------------------------------ bounds
MaxTicks == 2
TickStep == 59

\* ------------------------------------------------------ Python values
None == [t |-> "NoneType", s |-> <<>>]
PyStr(s) == [t |-> "str", s |-> s]
PyInt(s) == [t |-> "int", s |-> s]

\* Python truth of a value: None, "" and 0 are false.
Truthy(v) ==
    CASE v.t = "NoneType" -> FALSE
      [] v.t = "str" -> v.s # <<>>
      [] OTHER -> v.s # <<"0">>

Whitespace == {" ", "\t", "\n"}

RECURSIVE lstrip(_)
lstrip(s) == IF s # <<>> /\ Head(s) \in Whitespace THEN lstrip(Tail(s)) ELSE s

RECURSIVE rstrip(_)
rstrip(s) ==
    IF s # <<>> /\ s[Len(s)] \in Whitespace THEN rstrip(SubSeq(s, 1, Len(s) - 1)) ELSE s

\* str.strip()
strip(s) == rstrip(lstrip(s))

\* --------------------------------------------------------- LineState
IDLE == "idle"
DIALING == "dialing"
RINGING == "ringing"
CONNECTED == "connected"
DISCONNECTED == "disconnected"
ERROR == "error"
LineState == {IDLE, DIALING, RINGING, CONNECTED, DISCONNECTED, ERROR}

\* PhoneLine.__init__
\* audio_output is the channel of the line's AudioOutput (0 = no output)
NewLine ==
    [state |-> IDLE, call_id |-> None, remote_number |-> None,
     call_duration |-> 0, call_start_time |-> 0, audio_output |-> 0]

valid_transitions(from_state) ==
    CASE from_state = IDLE -> {DIALING}
      [] from_state = DIALING -> {RINGING, CONNECTED, DISCONNECTED}
      [] from_state = RINGING -> {CONNECTED, DISCONNECTED}
      [] from_state = CONNECTED -> {DISCONNECTED}
      [] from_state = DISCONNECTED -> {IDLE}
      [] from_state = ERROR -> {IDLE}
      [] OTHER -> {}

\* faulty variant of _is_valid_transition: every transition is accepted
M_is_valid_transition_any(from_state, to_state) == TRUE

_is_valid_transition(from_state, to_state) ==
    IF from_state = to_state THEN TRUE
    ELSE IF to_state = ERROR THEN TRUE
    ELSE to_state \in valid_transitions(from_state)

\* The PhoneLine methods below run under the line's lock from entry to return.
\* Each maps the line's fields (and its argument) to
\*   line: the fields on return, ret: the value returned,
\*   cbs: the on_state_change calls made, in order, as <<old_state, new_state>>.

set_state(ln, new_state) ==
    IF ln.state # new_state
    THEN IF ~_is_valid_transition(ln.state, new_state)
         THEN [line |-> ln, ret |-> FALSE, cbs |-> <<>>]
         ELSE [line |-> [ln EXCEPT !.state = new_state], ret |-> FALSE,
               cbs |-> << <<ln.state, new_state>> >>]
    ELSE [line |-> ln, ret |-> FALSE, cbs |-> <<>>]

\* faulty variant of dial: the current state is not tested
M_dial_any_state(ln, phone_number) ==
    IF ~Truthy(phone_number) \/ phone_number.t # "str" \/ strip(phone_number.s) = <<>>
    THEN [line |-> ln, ret |-> FALSE, cbs |-> <<>>]
    ELSE LET r == set_state([ln EXCEPT !.remote_number = phone_number], DIALING)
         IN  [line |-> r.line, ret |-> TRUE, cbs |-> r.cbs]

dial(ln, phone_number) ==
    IF ln.state # IDLE
    THEN [line |-> ln, ret |-> FALSE, cbs |-> <<>>]
    ELSE IF ~Truthy(phone_number) \/ phone_number.t # "str" \/ strip(phone_number.s) = <<>>
    THEN [line |-> ln, ret |-> FALSE, cbs |-> <<>>]
    ELSE LET r == set_state([ln EXCEPT !.remote_number = phone_number], DIALING)
         IN  [line |-> r.line, ret |-> TRUE, cbs |-> r.cbs]

call_connected(ln, call_id, t) ==
    set_state([ln EXCEPT !.call_id = call_id, !.call_start_time = t], CONNECTED)

hangup(ln) ==
    IF ln.state \notin {DIALING, RINGING, CONNECTED}
    THEN [line |-> ln, ret |-> FALSE, cbs |-> <<>>]
    ELSE LET r == set_state(ln, DISCONNECTED)
         IN  [line |-> r.line, ret |-> TRUE, cbs |-> r.cbs]

\* faulty variant of reset: the final transition to Idle is left out
M_reset_no_idle(ln, t) ==
    LET r1 == IF ln.state \in {DIALING, RINGING, CONNECTED}
              THEN set_state(ln, DISCONNECTED)
              ELSE [line |-> ln, ret |-> FALSE, cbs |-> <<>>]
    IN  [line |-> [r1.line EXCEPT !.call_id = None, !.remote_number = None,
                                  !.call_start_time = 0],
         ret |-> FALSE, cbs |-> r1.cbs]

\* faulty variant of reset: straight to Idle, not through Disconnected
M_reset_direct(ln, t) ==
    [line |-> [ln EXCEPT !.state = IDLE, !.call_id = None, !.remote_number = None,
                         !.call_start_time = 0],
     ret |-> FALSE,
     cbs |-> IF ln.state = IDLE THEN <<>> ELSE << <<ln.state, IDLE>> >>]

reset(ln, t) ==
    LET r1 == IF ln.state \in {DIALING, RINGING, CONNECTED}
              THEN set_state(ln, DISCONNECTED)
              ELSE [line |-> ln, ret |-> FALSE, cbs |-> <<>>]
        l1 == r1.line
        l2 == IF l1.call_start_time # 0 /\ l1.state = DISCONNECTED
              THEN [l1 EXCEPT !.call_duration = t - l1.call_start_time]
              ELSE l1
        l3 == [l2 EXCEPT !.call_id = None, !.remote_number = None,
                         !.call_start_time = 0]
        r2 == set_state(l3, IDLE)
    IN  [line |-> r2.line, ret |-> FALSE, cbs |-> r1.cbs \o r2.cbs]

\* ------------------------------------------------- get_status_string
Digits == <<"0", "1", "2", "3", "4", "5", "6", "7", "8", "9">>

\* str(n) for n >= 0
RECURSIVE DecStr(_)
DecStr(n) == IF n < 10 THEN <<Digits[n + 1]>> ELSE DecStr(n \div 10) \o <<Digits[(n % 10) + 1]>>

\* f"{n:02d}"
Fmt02d(n) == IF n < 10 THEN <<"0">> \o DecStr(n) ELSE DecStr(n)

\* self.remote_number or 'Unknown'
NumberOrUnknown(v) == IF Truthy(v) THEN v.s ELSE <<"U", "n", "k", "n", "o", "w", "n">>

\* faulty variant of get_status_string: the seconds are not reduced modulo 60
M_status_raw_seconds(ln, t) ==
    CASE ln.state = IDLE -> <<"A", "v", "a", "i", "l", "a", "b", "l", "e">>
      [] ln.state = DIALING ->
            <<"D", "i", "a", "l", "i", "n", "g", " ">> \o NumberOrUnknown(ln.remote_number)
      [] ln.state = RINGING ->
            <<"R", "i", "n", "g", "i", "n", "g", " ">> \o NumberOrUnknown(ln.remote_number)
      [] ln.state = CONNECTED ->
            LET duration == IF ln.call_start_time # 0 THEN t - ln.call_start_time ELSE 0
            IN  NumberOrUnknown(ln.remote_number) \o <<" ", "(">> \o Fmt02d(0)
                    \o <<":">> \o Fmt02d(duration) \o <<")">>
      [] ln.state = DISCONNECTED ->
            <<"D", "i", "s", "c", "o", "n", "n", "e", "c", "t", "i", "n", "g", ".", ".", ".">>
      [] OTHER -> <<"E", "r", "r", "o", "r">>

get_status_string(ln, t) ==
    CASE ln.state = IDLE -> <<"A", "v", "a", "i", "l", "a", "b", "l", "e">>
      [] ln.state = DIALING ->
            <<"D", "i", "a", "l", "i", "n", "g", " ">> \o NumberOrUnknown(ln.remote_number)
      [] ln.state = RINGING ->
            <<"R", "i", "n", "g", "i", "n", "g", " ">> \o NumberOrUnknown(ln.remote_number)
      [] ln.state = CONNECTED ->
            LET duration == IF ln.call_start_time # 0 THEN t - ln.call_start_time ELSE 0
                mins == duration \div 60
                secs == duration % 60
            IN  NumberOrUnknown(ln.remote_number) \o <<" ", "(">> \o Fmt02d(mins)
                    \o <<":">> \o Fmt02d(secs) \o <<")">>
      [] ln.state = DISCONNECTED ->
            <<"D", "i", "s", "c", "o", "n", "n", "e", "c", "t", "i", "n", "g", ".", ".", ".">>
      [] OTHER -> <<"E", "r", "r", "o", "r">>

\* faulty variant of is_available: every line is available
M_is_available_always(ln) == TRUE

\* is_available / is_active: unlocked reads of the state
is_available(ln) == ln.state = IDLE
is_active(ln) == ln.state \in {DIALING, RINGING, CONNECTED}

\* ------------------------------------------------------------ inputs
\* Arguments a caller may pass where a phone number is expected.
PhoneArgs ==
    {None, PyStr(<<>>), PyStr(<<" ">>), PyStr(<<"\t">>), PyInt(<<"7">>),
     PyStr(<<"5">>), PyStr(<<"+", "1">>), PyStr(<<"5", " ">>), PyStr(<<"a">>)}

\* Arguments passed to call_connected as the call id.
CallIdArgs == {None, PyStr(<<"5">>), PyStr(<<"x">>)}

\* Arguments the GUI passes to SIPEngine.make_call (phone_number: str).
NumberArgs == {v \in PhoneArgs : v.t # "int"}

\* ------------------------------------------------- direct PhoneLine use
\* A program that holds one PhoneLine and calls its methods in any order
\* (tests/test_system.py, TestPhoneLine).

\* `last`: the operation (op, its argument arg or target state to), the line
\* it was called on (lid), the line's fields at entry (pre), the time (t), and
\* what the caller observed: the value returned (ret, text) and the
\* on_state_change calls (cbs).
NoOp ==
    [op |-> "none", lid |-> 1, arg |-> None, to |-> IDLE, pre |-> NewLine, t |-> 0,
     ret |-> FALSE, text |-> <<>>, cbs |-> <<>>]

Record(op, l, arg, to, r, text) ==
    [op |-> op, lid |-> l, arg |-> arg, to |-> to, pre |-> lines[l], t |-> now,
     ret |-> r.ret, text |-> text, cbs |-> r.cbs]

sysVars == <<engine, bp, os, reader, callers>>

LineSetState(l, new_state) ==
    LET r == set_state(lines[l], new_state)
    IN  /\ lines' = [lines EXCEPT ![l] = r.line]
        /\ last' = Record("set_state", l, None, new_state, r, <<>>)
        /\ UNCHANGED <<sysVars, now, audioVars, pipe>>

LineDial(l, phone_number) ==
    LET r == dial(lines[l], phone_number)
    IN  /\ lines' = [lines EXCEPT ![l] = r.line]
        /\ last' = Record("dial", l, phone_number, IDLE, r, <<>>)
        /\ UNCHANGED <<sysVars, now, audioVars, pipe>>

LineCallConnected(l, call_id) ==
    LET r == call_connected(lines[l], call_id, now)
    IN  /\ lines' = [lines EXCEPT ![l] = r.line]
        /\ last' = Record("call_connected", l, call_id, IDLE, r, <<>>)
        /\ UNCHANGED <<sysVars, now, audioVars, pipe>>

LineHangup(l) ==
    LET r == hangup(lines[l])
    IN  /\ lines' = [lines EXCEPT ![l] = r.line]
        /\ last' = Record("hangup", l, None, IDLE, r, <<>>)
        /\ UNCHANGED <<sysVars, now, audioVars, pipe>>

LineReset(l) ==
    LET r == reset(lines[l], now)
    IN  /\ lines' = [lines EXCEPT ![l] = r.line]
        /\ last' = Record("reset", l, None, IDLE, r, <<>>)
        /\ UNCHANGED <<sysVars, now, audioVars, pipe>>

LineGetStatus(l) ==
    /\ last' = Record("get_status_string", l, None, IDLE,
                      [ret |-> FALSE, cbs |-> <<>>], get_status_string(lines[l], now))
    /\ UNCHANGED <<lines, sysVars, now, audioVars, pipe>>

\* the wall clock advances
Tick ==
    /\ now + TickStep <= 1 + MaxTicks * TickStep
    /\ now' = now + TickStep
    /\ UNCHANGED <<lines, sysVars, last, audioVars, pipe>>

\* AudioRouter.__init__: the routing map is an empty dict; None is 0 for
\* test_tone_channel (a channel is 1 or more) and for test_tone_process (a pid)
NewRouter ==
    [is_running |-> FALSE, routing_map |-> << >>, test_tone_active |-> FALSE,
     test_tone_channel |-> 0, test_tone_process |-> 0]

\* no tone process was ever spawned, no start_in_thread thread runs, no
\* update_routing has returned True and no tone call was made
NewAudio ==
    [procs |-> << >>, tasks |-> << >>, updates |-> << >>, calls |-> << >>,
     taken |-> {}]

\* the router is constructed and not started, as in the specifications of
\* call control, which never touch it
InitAudio ==
    /\ router = NewRouter
    /\ audio = NewAudio

NewPipe(on) == [on |-> on, dials |-> 0, ev |-> 0, done |-> {}]

InitCalls(n, on) ==
    /\ lines = [l \in 1..n |-> NewLine]
    /\ engine = [num_lines |-> n, is_running |-> FALSE, baresip_processes |-> <<>>]
    /\ bp = [l \in 1..n |-> [running |-> FALSE, current_call_id |-> None, process |-> FALSE,
                              stdin |-> "none", stdout |-> "none"]]
    /\ os = [l \in 1..n |-> "none"]
    /\ reader = [l \in 1..n |-> "none"]
    /\ now = 1
    /\ last = NoOp
    /\ pipe = [l \in 1..n |-> NewPipe(on)]

InitEngine(n) == InitCalls(n, FALSE)

InitLine ==
    /\ InitEngine(1)
    /\ callers = [c \in {} |-> 0]
    /\ InitAudio

NextLine ==
    \/ \E l \in DOMAIN lines : \E s \in LineState : LineSetState(l, s)
    \/ \E l \in DOMAIN lines : \E v \in PhoneArgs : LineDial(l, v)
    \/ \E l \in DOMAIN lines : \E v \in CallIdArgs : LineCallConnected(l, v)
    \/ \E l \in DOMAIN lines : LineHangup(l)
    \/ \E l \in DOMAIN lines : LineReset(l)
    \/ \E l \in DOMAIN lines : LineGetStatus(l)
    \/ Tick

SpecLine == InitLine /\ [][NextLine]_vars

\* ------------------------------------------------ the running system
\* Threads: one monitor thread per started BaresipProcess (_monitor_output)
\* and the control threads of `callers`.  A PhoneLine method is one step (it
\* holds the line's lock); every other access to shared fields is a step of
\* its own, so that the threads interleave between them.

\* Text lines the external process writes, by the branch of _monitor_output
\* that matches them; "other" is a line that matches no call-state branch
\* (registration results, blank and unrelated lines).
Events == {"other", "connecting", "ringing", "established", "closed", "hangupok"}

\* re.match(r'^[0-9+\-*#\s]+$', phone_number)
NumberChars == {"0", "1", "2", "3", "4", "5", "6", "7", "8", "9", "+", "-", "*", "#"}
number_format_ok(s) == s # <<>> /\ \A i \in 1..Len(s) : s[i] \in NumberChars \cup Whitespace

\* phone_number.replace(' ', '')
RECURSIVE remove_spaces(_)
remove_spaces(s) ==
    IF s = <<>> THEN <<>>
    ELSE IF Head(s) = " " THEN remove_spaces(Tail(s))
    ELSE <<Head(s)>> \o remove_spaces(Tail(s))

\* A control thread: its position (pc), the engine operation it is in or has
\* last returned from (op) with the value returned (ret), and its locals.
\* Kept for the properties: wrote, what the operation did with the process's
\* stdin ("none": no write, "dial" / "hangup": the command written and flushed,
\* "broken": the write raised BrokenPipeError or OSError); tried, the lines
\* whose supervisor stop() has called hangup() on; killed, the lines whose
\* process stop() has killed; quiet and pre, set when the dial command is
\* written.
IdleCaller ==
    [pc |-> "idle", op |-> "none", lid |-> 0, num |-> None, i |-> 0,
     ret |-> "none", failed |-> FALSE, quiet |-> FALSE, pre |-> <<>>,
     wrote |-> "none", tried |-> {}, killed |-> {}]

\* the operation op returns v, having done w with the process's stdin
Returned(c, op, v, w) ==
    [callers EXCEPT ![c] = [IdleCaller EXCEPT !.op = op, !.ret = v, !.wrote = w]]

Return(c, op, v) == Returned(c, op, v, "none")

Bool(b) == IF b THEN "True" ELSE "False"

\* What BaresipProcess.make_call and the line hold, kept from the entry of
\* BaresipProcess.make_call to its return.
Snapshot(l) == <<lines[l], bp[l].current_call_id>>

\* ---- the external process
ProcDie(l) ==
    /\ os[l] = "alive"
    /\ os' = [os EXCEPT ![l] = "exited"]
    /\ UNCHANGED <<lines, engine, bp, reader, callers, now, last, audioVars, pipe>>

\* ---- the monitor thread, BaresipProcess._monitor_output
\* readline returns a line of text: the loop test, then the classification
\* the calls that a line of baresip's output can belong to: one of the calls
\* dialled so far
EventCalls(l) ==
    IF pipe[l].on /\ pipe[l].dials > 0 THEN 1..pipe[l].dials ELSE {0}

ReaderRead(l, e) ==
    /\ reader[l] = "read"
    /\ os[l] = "alive"
    /\ reader' = [reader EXCEPT ![l] =
                    IF ~bp[l].running THEN "finally"
                    ELSE IF e = "other" THEN "read"
                    ELSE e]
    /\ \E k \in EventCalls(l) :
          pipe' = [pipe EXCEPT ![l].ev =
                     IF reader'[l] \in {"closed", "hangupok"} THEN k ELSE 0]
    /\ UNCHANGED <<lines, engine, bp, os, callers, now, last, audioVars>>

\* readline returns "" at end of stream: the loop ends
ReaderEOF(l) ==
    /\ reader[l] = "read"
    /\ os[l] = "exited"
    /\ reader' = [reader EXCEPT ![l] = "finally"]
    /\ UNCHANGED <<lines, engine, bp, os, callers, now, last, audioVars, pipe>>

\* readline raises (undecodable output, or the stream closed under it)
ReaderRaise(l) ==
    /\ reader[l] = "read"
    /\ os[l] = "alive" \/ ~bp[l].process
    /\ reader' = [reader EXCEPT ![l] = "except"]
    /\ UNCHANGED <<lines, engine, bp, os, callers, now, last, audioVars, pipe>>

ReaderConnecting(l) ==
    /\ reader[l] = "connecting"
    /\ lines' = [lines EXCEPT ![l] = set_state(lines[l], DIALING).line]
    /\ reader' = [reader EXCEPT ![l] = "read"]
    /\ UNCHANGED <<engine, bp, os, callers, now, last, audioVars, pipe>>

ReaderRinging(l) ==
    /\ reader[l] = "ringing"
    /\ lines' = [lines EXCEPT ![l] = set_state(lines[l], RINGING).line]
    /\ reader' = [reader EXCEPT ![l] = "read"]
    /\ UNCHANGED <<engine, bp, os, callers, now, last, audioVars, pipe>>

\* the unlocked test of phone_line.state
ReaderEstablished(l) ==
    /\ reader[l] = "established"
    /\ reader' = [reader EXCEPT ![l] =
                    IF lines[l].state \in {DIALING, RINGING} THEN "connect" ELSE "read"]
    /\ UNCHANGED <<lines, engine, bp, os, callers, now, last, audioVars, pipe>>

ReaderConnect(l) ==
    /\ reader[l] = "connect"
    /\ lines' = [lines EXCEPT ![l] = call_connected(lines[l], bp[l].current_call_id, now).line]
    /\ reader' = [reader EXCEPT ![l] = "read"]
    /\ UNCHANGED <<engine, bp, os, callers, now, last, audioVars, pipe>>

\* faulty variant of the test: the event is acted on whether or not a call
\* id is tracked
M_ReaderClosed_always(l) ==
    /\ reader[l] \in {"closed", "hangupok"}
    /\ reader' = [reader EXCEPT ![l] = "closed_reset"]
    /\ UNCHANGED <<lines, engine, bp, os, callers, now, last, audioVars, pipe>>

\* "call: closed" and "hangup ... ok": the test of current_call_id
ReaderClosed(l) ==
    /\ reader[l] \in {"closed", "hangupok"}
    /\ reader' = [reader EXCEPT ![l] =
                    IF Truthy(bp[l].current_call_id) THEN "closed_reset" ELSE "read"]
    /\ pipe' = [pipe EXCEPT ![l].ev = IF Truthy(bp[l].current_call_id) THEN @ ELSE 0]
    /\ UNCHANGED <<lines, engine, bp, os, callers, now, last, audioVars>>

ReaderClosedReset(l) ==
    /\ reader[l] = "closed_reset"
    /\ lines' = [lines EXCEPT ![l] = reset(lines[l], now).line]
    /\ reader' = [reader EXCEPT ![l] = "closed_clear"]
    /\ UNCHANGED <<engine, bp, os, callers, now, last, audioVars, pipe>>

ReaderClosedClear(l) ==
    /\ reader[l] = "closed_clear"
    /\ bp' = [bp EXCEPT ![l].current_call_id = None]
    /\ reader' = [reader EXCEPT ![l] = "read"]
    /\ pipe' = [pipe EXCEPT ![l].done = @ \cup ({pipe[l].ev} \ {0}), ![l].ev = 0]
    /\ UNCHANGED <<lines, engine, os, callers, now, last, audioVars>>

\* the except clause, then the finally clause (which finds running False); the
\* thread ends ("crashed": ended by an exception, "done": ended by the loop)
ReaderExcept(l) ==
    /\ reader[l] = "except"
    /\ IF bp[l].running
       THEN /\ bp' = [bp EXCEPT ![l].running = FALSE]
            /\ lines' = [lines EXCEPT ![l] = reset(lines[l], now).line]
       ELSE UNCHANGED <<bp, lines>>
    /\ reader' = [reader EXCEPT ![l] = "crashed"]
    /\ UNCHANGED <<engine, os, callers, now, last, audioVars, pipe>>

\* faulty variant of the finally clause: the process's death is not acted on
M_ReaderFinally_ignores_death(l) ==
    /\ reader[l] = "finally"
    /\ reader' = [reader EXCEPT ![l] = "done"]
    /\ UNCHANGED <<lines, bp, engine, os, callers, now, last, audioVars, pipe>>

\* faulty variant of the finally clause: the death of one process resets every line
M_ReaderFinally_resets_all(l) ==
    /\ reader[l] = "finally"
    /\ IF bp[l].running /\ bp[l].process /\ os[l] = "exited"
       THEN /\ bp' = [bp EXCEPT ![l].running = FALSE]
            /\ lines' = [j \in DOMAIN lines |-> reset(lines[j], now).line]
       ELSE UNCHANGED <<bp, lines>>
    /\ reader' = [reader EXCEPT ![l] = "done"]
    /\ UNCHANGED <<engine, os, callers, now, last, audioVars, pipe>>

\* the finally clause after the loop ended: poll() tells whether the process died
ReaderFinally(l) ==
    /\ reader[l] = "finally"
    /\ IF bp[l].running /\ bp[l].process /\ os[l] = "exited"
       THEN /\ bp' = [bp EXCEPT ![l].running = FALSE]
            /\ lines' = [lines EXCEPT ![l] = reset(lines[l], now).line]
       ELSE UNCHANGED <<bp, lines>>
    /\ reader' = [reader EXCEPT ![l] = "done"]
    /\ UNCHANGED <<engine, os, callers, now, last, audioVars, pipe>>

\* ---- the control threads

\* faulty variant of BaresipProcess.hangup: a failed write does not reset the line
M_bp_hangup_no_reset(l) ==
    IF ~bp[l].running \/ ~bp[l].process
    THEN [ret |-> FALSE, running |-> bp[l].running, line |-> lines[l], wrote |-> "none"]
    ELSE IF os[l] = "alive"
    THEN [ret |-> TRUE, running |-> bp[l].running, line |-> lines[l], wrote |-> "hangup"]
    ELSE [ret |-> FALSE, running |-> FALSE, line |-> lines[l], wrote |-> "broken"]

\* faulty variant of BaresipProcess.hangup: it also hangs up the line itself
M_bp_hangup_local(l) ==
    IF ~bp[l].running \/ ~bp[l].process
    THEN [ret |-> FALSE, running |-> bp[l].running, line |-> lines[l], wrote |-> "none"]
    ELSE IF os[l] = "alive"
    THEN [ret |-> TRUE, running |-> bp[l].running, line |-> hangup(lines[l]).line,
          wrote |-> "hangup"]
    ELSE [ret |-> FALSE, running |-> FALSE, line |-> reset(lines[l], now).line,
          wrote |-> "broken"]

\* BaresipProcess.hangup, from its entry to its return
bp_hangup(l) ==
    IF ~bp[l].running \/ ~bp[l].process
    THEN [ret |-> FALSE, running |-> bp[l].running, line |-> lines[l], wrote |-> "none"]
    ELSE IF os[l] = "alive"
    THEN [ret |-> TRUE, running |-> bp[l].running, line |-> lines[l], wrote |-> "hangup"]
    ELSE [ret |-> FALSE, running |-> FALSE, line |-> reset(lines[l], now).line,
          wrote |-> "broken"]

\* SIPEngine.start, with the configuration loaded.  k supervisors start and the
\* next one fails (k = num_lines: none fails); after a failure start runs
\* stop() and returns False.  The application starts the engine from
\* initialize() only: no supervisor is registered and no monitor thread of an
\* earlier run is alive.
EngineStart(c, k) ==
    /\ callers[c].pc = "idle"
    /\ IF engine.is_running
       THEN /\ callers' = Return(c, "start", "True")
            /\ UNCHANGED <<engine, bp, os, reader>>
       ELSE /\ engine.baresip_processes = <<>>
            /\ \A l \in DOMAIN reader : reader[l] \in {"none", "done", "crashed"}
            /\ bp' = [l \in DOMAIN bp |->
                        IF l <= k
                        THEN [running |-> TRUE, current_call_id |-> None, process |-> TRUE,
                              stdin |-> "open", stdout |-> "open"]
                        ELSE bp[l]]
            /\ os' = [l \in DOMAIN os |-> IF l <= k THEN "alive" ELSE os[l]]
            /\ reader' = [l \in DOMAIN reader |-> IF l <= k THEN "read" ELSE reader[l]]
            /\ engine' = [engine EXCEPT !.baresip_processes = [j \in 1..k |-> j],
                                        !.is_running = (k = engine.num_lines)]
            /\ callers' =
                  IF k = engine.num_lines THEN Return(c, "start", "True")
                  ELSE IF k = 0 THEN Return(c, "start", "False")
                  ELSE [callers EXCEPT ![c] =
                          [IdleCaller EXCEPT !.pc = "stop_hangup", !.op = "start",
                                             !.i = 1, !.failed = TRUE]]
    /\ UNCHANGED <<lines, now, last, audioVars, pipe>>

\* SIPEngine.make_call up to the call of baresip.make_call
MakeCallEnter(c, lid, n) ==
    /\ callers[c].pc = "idle"
    /\ callers' =
          IF \/ ~engine.is_running
             \/ lid < 1 \/ lid > engine.num_lines
             \/ lid > Len(engine.baresip_processes)
             \/ ~is_available(lines[lid])
          THEN Return(c, "make_call", "False")
          ELSE [callers EXCEPT ![c] =
                  [IdleCaller EXCEPT !.pc = "bp_make_call", !.op = "make_call",
                                     !.lid = lid, !.num = n]]
    /\ UNCHANGED <<lines, engine, bp, os, reader, now, last, audioVars, pipe>>

\* the most dial commands written to one line when the calls are told apart
MaxDials == 2

\* BaresipProcess.make_call up to the write and flush of the dial command
BpMakeCall(c) ==
    LET l == callers[c].lid
        n == callers[c].num
        stripped == remove_spaces(n.s)
    IN  /\ callers[c].pc = "bp_make_call"
        /\ pipe[l].on => pipe[l].dials < MaxDials
        /\ IF \/ ~bp[l].running \/ ~bp[l].process
              \/ ~Truthy(n) \/ ~number_format_ok(n.s)
              \/ stripped = <<>>
           THEN /\ callers' = Return(c, "make_call", "False")
                /\ UNCHANGED <<bp, lines>>
           ELSE IF os[l] = "alive"
           THEN /\ callers' = [callers EXCEPT ![c].pc = "mc_set_id",
                                              ![c].num = PyStr(stripped),
                                              ![c].quiet = (reader[l] = "read"
                                                            /\ lines[l].state = IDLE),
                                              ![c].pre = Snapshot(l),
                                              ![c].wrote = "dial"]
                /\ UNCHANGED <<bp, lines>>
           ELSE /\ bp' = [bp EXCEPT ![l].running = FALSE]
                /\ lines' = [lines EXCEPT ![l] = reset(lines[l], now).line]
                /\ callers' = Returned(c, "make_call", "False", "broken")
        /\ pipe' = [pipe EXCEPT ![l].dials =
                      IF pipe[l].on /\ callers'[c].pc = "mc_set_id" THEN @ + 1 ELSE @]
        /\ UNCHANGED <<engine, os, reader, now, last, audioVars>>

\* self.current_call_id = phone_number
McSetId(c) ==
    /\ callers[c].pc = "mc_set_id"
    /\ bp' = [bp EXCEPT ![callers[c].lid].current_call_id = callers[c].num]
    /\ callers' = [callers EXCEPT ![c].pc = "mc_dial"]
    /\ UNCHANGED <<lines, engine, os, reader, now, last, audioVars, pipe>>

\* if not self.phone_line.dial(phone_number): return False ... return True
McDial(c) ==
    LET l == callers[c].lid
        r == dial(lines[l], callers[c].num)
    IN  /\ callers[c].pc = "mc_dial"
        /\ lines' = [lines EXCEPT ![l] = r.line]
        /\ callers' = Returned(c, "make_call", Bool(r.ret), "dial")
        /\ UNCHANGED <<engine, bp, os, reader, now, last, audioVars, pipe>>

\* SIPEngine.hangup_call up to the call of baresip.hangup
HangupEnter(c, lid) ==
    /\ callers[c].pc = "idle"
    /\ callers' =
          IF \/ lid < 1 \/ lid > engine.num_lines
             \/ lid > Len(engine.baresip_processes)
             \/ ~is_active(lines[lid])
          THEN Return(c, "hangup_call", "False")
          ELSE [callers EXCEPT ![c] =
                  [IdleCaller EXCEPT !.pc = "bp_hangup", !.op = "hangup_call", !.lid = lid]]
    /\ UNCHANGED <<lines, engine, bp, os, reader, now, last, audioVars, pipe>>

BpHangup(c) ==
    LET l == callers[c].lid
        r == bp_hangup(l)
    IN  /\ callers[c].pc = "bp_hangup"
        /\ bp' = [bp EXCEPT ![l].running = r.running]
        /\ lines' = [lines EXCEPT ![l] = r.line]
        /\ callers' = Returned(c, "hangup_call", Bool(r.ret), r.wrote)
        /\ UNCHANGED <<engine, os, reader, now, last, audioVars, pipe>>

\* SIPEngine.stop: the early return, or on to the hangup loop
StopEnter(c) ==
    /\ callers[c].pc = "idle"
    /\ callers' =
          IF ~engine.is_running /\ engine.baresip_processes = <<>>
          THEN Return(c, "stop", "none")
          ELSE [callers EXCEPT ![c] =
                  [IdleCaller EXCEPT !.pc = "stop_hangup", !.op = "stop", !.i = 1]]
    /\ UNCHANGED <<lines, engine, bp, os, reader, now, last, audioVars, pipe>>

\* faulty variant of stop's first loop: no hangup is attempted
M_StopHangup_skips(c) ==
    LET i == callers[c].i
    IN  /\ callers[c].pc = "stop_hangup"
        /\ callers' = IF i > Len(engine.baresip_processes)
                      THEN [callers EXCEPT ![c].pc = "stop_proc", ![c].i = 1]
                      ELSE [callers EXCEPT ![c].i = i + 1]
        /\ UNCHANGED <<lines, engine, bp, os, reader, now, last, audioVars, pipe>>

\* one pass of: for baresip in self.baresip_processes: if baresip.current_call_id: hangup()
StopHangup(c) ==
    LET i == callers[c].i
    IN  /\ callers[c].pc = "stop_hangup"
        /\ IF i > Len(engine.baresip_processes)
           THEN /\ callers' = [callers EXCEPT ![c].pc = "stop_proc", ![c].i = 1]
                /\ UNCHANGED <<bp, lines>>
           ELSE LET l == engine.baresip_processes[i]
                    r == bp_hangup(l)
                IN  /\ IF Truthy(bp[l].current_call_id)
                       THEN /\ bp' = [bp EXCEPT ![l].running = r.running]
                            /\ lines' = [lines EXCEPT ![l] = r.line]
                            /\ callers' = [callers EXCEPT ![c].i = i + 1,
                                                          ![c].tried = @ \cup {l}]
                       ELSE /\ UNCHANGED <<bp, lines>>
                            /\ callers' = [callers EXCEPT ![c].i = i + 1]
        /\ UNCHANGED <<engine, os, reader, now, last, audioVars, pipe>>

\* one pass of: for baresip in self.baresip_processes: baresip.stop()
\* BaresipProcess.stop clears running, ends the process (quit, or kill after
\* the wait), closes the pipes and drops the handle.  Its join(timeout=1) of
\* the monitor thread returns when the thread has ended or when the second has
\* passed: it does not hold stop() back until the thread has ended.
StopProc(c) ==
    LET i == callers[c].i
    IN  /\ callers[c].pc = "stop_proc"
        /\ IF i > Len(engine.baresip_processes)
           THEN /\ callers' = [callers EXCEPT ![c].pc = "stop_clear"]
                /\ UNCHANGED <<bp, os>>
           ELSE LET l == engine.baresip_processes[i]
                IN  /\ bp' = [bp EXCEPT ![l].running = FALSE, ![l].process = FALSE,
                                         ![l].stdin = IF bp[l].process THEN "closed" ELSE @,
                                         ![l].stdout = IF bp[l].process THEN "closed" ELSE @]
                    /\ os' = [os EXCEPT ![l] = IF bp[l].process THEN "exited" ELSE os[l]]
                    /\ callers' = [callers EXCEPT ![c].i = i + 1]
        /\ UNCHANGED <<lines, engine, reader, now, last, audioVars, pipe>>

\* ---- BaresipProcess.stop step by step
\* StopProc above is BaresipProcess.stop taken as one step.  Below are its
\* steps, between which the process and the monitor thread act: the process
\* may exit on the quit command, at any other time, or not at all.
BsPcs == {"bs_quit", "bs_wait", "bs_kill", "bs_close", "bs_clear"}

\* the supervisor that control thread c is stopping
Stopping(c) == engine.baresip_processes[callers[c].i]

\* for baresip in self.baresip_processes: baresip.stop(), up to
\* self.running = False and the test of self.process
StopProcBegin(c) ==
    LET i == callers[c].i
    IN  /\ callers[c].pc = "stop_proc"
        /\ IF i > Len(engine.baresip_processes)
           THEN /\ callers' = [callers EXCEPT ![c].pc = "stop_clear"]
                /\ UNCHANGED bp
           ELSE LET l == engine.baresip_processes[i]
                IN  /\ bp' = [bp EXCEPT ![l].running = FALSE]
                    /\ callers' = IF bp[l].process
                                  THEN [callers EXCEPT ![c].pc = "bs_quit"]
                                  ELSE [callers EXCEPT ![c].i = i + 1]
        /\ UNCHANGED <<lines, engine, os, reader, now, last, audioVars, pipe>>

\* the quit command is written and flushed; BrokenPipeError is passed over
BsQuit(c) ==
    /\ callers[c].pc = "bs_quit"
    /\ callers' = [callers EXCEPT ![c].pc = "bs_wait"]
    /\ UNCHANGED <<lines, engine, bp, os, reader, now, last, audioVars, pipe>>

\* faulty variant of the wait: a process still alive after the wait is left alone
M_BsWait_no_kill(c) ==
    /\ callers[c].pc = "bs_wait"
    /\ callers' = [callers EXCEPT ![c].pc = "bs_close"]
    /\ UNCHANGED <<lines, engine, bp, os, reader, now, last, audioVars, pipe>>

\* self.process.wait(timeout=2): returns for a process that has exited, raises
\* TimeoutExpired for one that is still alive when the two seconds are over
BsWait(c) ==
    /\ callers[c].pc = "bs_wait"
    /\ callers' = [callers EXCEPT ![c].pc =
                      IF os[Stopping(c)] = "exited" THEN "bs_close" ELSE "bs_kill"]
    /\ UNCHANGED <<lines, engine, bp, os, reader, now, last, audioVars, pipe>>

\* except subprocess.TimeoutExpired: self.process.kill(); self.process.wait()
BsKill(c) ==
    /\ callers[c].pc = "bs_kill"
    /\ os' = [os EXCEPT ![Stopping(c)] = "exited"]
    /\ callers' = [callers EXCEPT ![c].pc = "bs_close",
                                  ![c].killed = IF os[Stopping(c)] = "alive"
                                                THEN @ \cup {Stopping(c)} ELSE @]
    /\ UNCHANGED <<lines, engine, bp, reader, now, last, audioVars, pipe>>

\* finally: stdin.close(), stdout.close(), each inside its own try
BsClose(c) ==
    /\ callers[c].pc = "bs_close"
    /\ bp' = [bp EXCEPT ![Stopping(c)].stdin = "closed", ![Stopping(c)].stdout = "closed"]
    /\ callers' = [callers EXCEPT ![c].pc = "bs_clear"]
    /\ UNCHANGED <<lines, engine, os, reader, now, last, audioVars, pipe>>

\* self.process = None; the join(timeout=1) of the monitor thread; return
BsClear(c) ==
    /\ callers[c].pc = "bs_clear"
    /\ bp' = [bp EXCEPT ![Stopping(c)].process = FALSE]
    /\ callers' = [callers EXCEPT ![c].pc = "stop_proc", ![c].i = @ + 1]
    /\ UNCHANGED <<lines, engine, os, reader, now, last, audioVars, pipe>>

\* self.baresip_processes.clear()
StopClear(c) ==
    /\ callers[c].pc = "stop_clear"
    /\ engine' = [engine EXCEPT !.baresip_processes = <<>>]
    /\ callers' = [callers EXCEPT ![c].pc = "stop_reset", ![c].i = 1]
    /\ UNCHANGED <<lines, bp, os, reader, now, last, audioVars, pipe>>

\* one pass of: for line in self.lines: line.reset(); then is_running = False
StopReset(c) ==
    LET i == callers[c].i
    IN  /\ callers[c].pc = "stop_reset"
        /\ IF i > engine.num_lines
           THEN /\ engine' = [engine EXCEPT !.is_running = FALSE]
                /\ callers' = Return(c, callers[c].op,
                                     IF callers[c].failed THEN "False" ELSE "none")
                /\ UNCHANGED lines
           ELSE /\ lines' = [lines EXCEPT ![i] = reset(lines[i], now).line]
                /\ callers' = [callers EXCEPT ![c].i = i + 1]
                /\ UNCHANGED engine
        /\ UNCHANGED <<bp, os, reader, now, last, audioVars, pipe>>

\* line ids a caller may pass: the lines and one id off each end
LineIds == 0..(engine.num_lines + 1)

Init ==
    /\ InitEngine(1)
    /\ callers = [c \in {"gui"} |-> IdleCaller]
    /\ InitAudio

Next ==
    \/ \E l \in DOMAIN lines : ProcDie(l)
    \/ \E l \in DOMAIN lines : \E e \in Events : ReaderRead(l, e)
    \/ \E l \in DOMAIN lines : ReaderEOF(l)
    \/ \E l \in DOMAIN lines : ReaderRaise(l)
    \/ \E l \in DOMAIN lines : ReaderConnecting(l)
    \/ \E l \in DOMAIN lines : ReaderRinging(l)
    \/ \E l \in DOMAIN lines : ReaderEstablished(l)
    \/ \E l \in DOMAIN lines : ReaderConnect(l)
    \/ \E l \in DOMAIN lines : ReaderClosed(l)
    \/ \E l \in DOMAIN lines : ReaderClosedReset(l)
    \/ \E l \in DOMAIN lines : ReaderClosedClear(l)
    \/ \E l \in DOMAIN lines : ReaderExcept(l)
    \/ \E l \in DOMAIN lines : ReaderFinally(l)
    \/ \E c \in DOMAIN callers : \E k \in 0..engine.num_lines : EngineStart(c, k)
    \/ \E c \in DOMAIN callers : \E lid \in LineIds : \E n \in NumberArgs :
            MakeCallEnter(c, lid, n)
    \/ \E c \in DOMAIN callers : BpMakeCall(c)
    \/ \E c \in DOMAIN callers : McSetId(c)
    \/ \E c \in DOMAIN callers : McDial(c)
    \/ \E c \in DOMAIN callers : \E lid \in LineIds : HangupEnter(c, lid)
    \/ \E c \in DOMAIN callers : BpHangup(c)
    \/ \E c \in DOMAIN callers : StopEnter(c)
    \/ \E c \in DOMAIN callers : StopHangup(c)
    \/ \E c \in DOMAIN callers : StopProc(c)
    \/ \E c \in DOMAIN callers : StopClear(c)
    \/ \E c \in DOMAIN callers : StopReset(c)

Spec == Init /\ [][Next]_vars

\* ---- two control threads on one line
\* The engine's operations called from two threads (the GUI event thread and a
\* timer) while the process stays alive and prints nothing about calls: the
\* runs of the system in which only the control threads act on the line.
RaceNumbers == {PyStr(<<"5">>), PyStr(<<"+", "1">>), PyStr(<<"5", " ">>)}

InitRace ==
    /\ InitEngine(1)
    /\ callers = [c \in {"gui", "timer"} |-> IdleCaller]
    /\ InitAudio

NextRace ==
    \/ \E c \in DOMAIN callers : EngineStart(c, engine.num_lines)
    \/ \E c \in DOMAIN callers : \E lid \in DOMAIN lines : \E n \in RaceNumbers :
            MakeCallEnter(c, lid, n)
    \/ \E c \in DOMAIN callers : BpMakeCall(c)
    \/ \E c \in DOMAIN callers : McSetId(c)
    \/ \E c \in DOMAIN callers : McDial(c)

SpecRace == InitRace /\ [][NextRace]_vars

\* ---- an engine of two lines: start, calls and stop
\* One control thread starts the engine (any number of supervisors may start
\* before one fails), places calls and stops it; each process prints the
\* connecting and the closed line of a call at any time, or exits.
LifecycleEvents == {"connecting", "closed"}

InitTwoLines ==
    /\ InitEngine(2)
    /\ callers = [c \in {"gui"} |-> IdleCaller]
    /\ InitAudio

NextTwoLines ==
    \/ \E l \in DOMAIN lines : ProcDie(l)
    \/ \E l \in DOMAIN lines : \E e \in LifecycleEvents : ReaderRead(l, e)
    \/ \E l \in DOMAIN lines : ReaderEOF(l)
    \/ \E l \in DOMAIN lines : ReaderConnecting(l)
    \/ \E l \in DOMAIN lines : ReaderClosed(l)
    \/ \E l \in DOMAIN lines : ReaderClosedReset(l)
    \/ \E l \in DOMAIN lines : ReaderClosedClear(l)
    \/ \E l \in DOMAIN lines : ReaderFinally(l)
    \/ \E c \in DOMAIN callers : \E k \in 0..engine.num_lines : EngineStart(c, k)
    \/ \E c \in DOMAIN callers : \E lid \in DOMAIN lines :
            MakeCallEnter(c, lid, PyStr(<<"5">>))
    \/ \E c \in DOMAIN callers : BpMakeCall(c)
    \/ \E c \in DOMAIN callers : McSetId(c)
    \/ \E c \in DOMAIN callers : McDial(c)
    \/ \E c \in DOMAIN callers : StopEnter(c)
    \/ \E c \in DOMAIN callers : StopHangup(c)
    \/ \E c \in DOMAIN callers : StopProc(c)
    \/ \E c \in DOMAIN callers : StopClear(c)
    \/ \E c \in DOMAIN callers : StopReset(c)

SpecTwoLines == InitTwoLines /\ [][NextTwoLines]_vars

\* ---- an engine of two lines: calls on both lines
\* The engine is started with both supervisors; one control thread places
\* calls and hangs up on either line while each process prints any event or
\* exits.  The engine is not stopped.
NextFrame ==
    \/ \E l \in DOMAIN lines : ProcDie(l)
    \/ \E l \in DOMAIN lines : \E e \in Events : ReaderRead(l, e)
    \/ \E l \in DOMAIN lines : ReaderEOF(l)
    \/ \E l \in DOMAIN lines : ReaderRaise(l)
    \/ \E l \in DOMAIN lines : ReaderConnecting(l)
    \/ \E l \in DOMAIN lines : ReaderRinging(l)
    \/ \E l \in DOMAIN lines : ReaderEstablished(l)
    \/ \E l \in DOMAIN lines : ReaderConnect(l)
    \/ \E l \in DOMAIN lines : ReaderClosed(l)
    \/ \E l \in DOMAIN lines : ReaderClosedReset(l)
    \/ \E l \in DOMAIN lines : ReaderClosedClear(l)
    \/ \E l \in DOMAIN lines : ReaderExcept(l)
    \/ \E l \in DOMAIN lines : ReaderFinally(l)
    \/ \E c \in DOMAIN callers : EngineStart(c, engine.num_lines)
    \/ \E c \in DOMAIN callers : \E lid \in DOMAIN lines :
            MakeCallEnter(c, lid, PyStr(<<"5">>))
    \/ \E c \in DOMAIN callers : BpMakeCall(c)
    \/ \E c \in DOMAIN callers : McSetId(c)
    \/ \E c \in DOMAIN callers : McDial(c)
    \/ \E c \in DOMAIN callers : \E lid \in DOMAIN lines : HangupEnter(c, lid)
    \/ \E c \in DOMAIN callers : BpHangup(c)

SpecFrame == InitTwoLines /\ [][NextFrame]_vars

\* ---- the engine stopped step by step
\* One line; the control thread starts the engine, places calls and stops it,
\* with BaresipProcess.stop taken step by step.
NextStop ==
    \/ \E l \in DOMAIN lines : ProcDie(l)
    \/ \E l \in DOMAIN lines : \E e \in Events : ReaderRead(l, e)
    \/ \E l \in DOMAIN lines : ReaderEOF(l)
    \/ \E l \in DOMAIN lines : ReaderRaise(l)
    \/ \E l \in DOMAIN lines : ReaderConnecting(l)
    \/ \E l \in DOMAIN lines : ReaderRinging(l)
    \/ \E l \in DOMAIN lines : ReaderEstablished(l)
    \/ \E l \in DOMAIN lines : ReaderConnect(l)
    \/ \E l \in DOMAIN lines : ReaderClosed(l)
    \/ \E l \in DOMAIN lines : ReaderClosedReset(l)
    \/ \E l \in DOMAIN lines : ReaderClosedClear(l)
    \/ \E l \in DOMAIN lines : ReaderExcept(l)
    \/ \E l \in DOMAIN lines : ReaderFinally(l)
    \/ \E c \in DOMAIN callers : EngineStart(c, engine.num_lines)
    \/ \E c \in DOMAIN callers : \E lid \in DOMAIN lines :
            MakeCallEnter(c, lid, PyStr(<<"5">>))
    \/ \E c \in DOMAIN callers : BpMakeCall(c)
    \/ \E c \in DOMAIN callers : McSetId(c)
    \/ \E c \in DOMAIN callers : McDial(c)
    \/ \E c \in DOMAIN callers : StopEnter(c)
    \/ \E c \in DOMAIN callers : StopHangup(c)
    \/ \E c \in DOMAIN callers : StopProcBegin(c)
    \/ \E c \in DOMAIN callers : BsQuit(c)
    \/ \E c \in DOMAIN callers : BsWait(c)
    \/ \E c \in DOMAIN callers : BsKill(c)
    \/ \E c \in DOMAIN callers : BsClose(c)
    \/ \E c \in DOMAIN callers : BsClear(c)
    \/ \E c \in DOMAIN callers : StopClear(c)
    \/ \E c \in DOMAIN callers : StopReset(c)

\* the steps of BaresipProcess.stop: none of them waits without a bound, so a
\* control thread that is inside stop() takes its next step
BsStep ==
    \E c \in DOMAIN callers :
        BsQuit(c) \/ BsWait(c) \/ BsKill(c) \/ BsClose(c) \/ BsClear(c)

SpecStop == Init /\ [][NextStop]_vars /\ WF_vars(BsStep)

\* ------------------------------------------------- the audio router
\* AudioRouter (src/src/audio_router.py).  Each `with self.lock:` block of
\* the router is one step; what a method does outside the lock is a step of
\* its own.

num_outputs == 5        \* num_outputs of the audio configuration
MaxUpdates == 3         \* update_routing calls of control threads that are followed

\* d[k] = v on a dict
SetItem(d, k, v) == [x \in DOMAIN d \cup {k} |-> IF x = k THEN v ELSE d[x]]

\* AudioRouter.get_routing: dict.get, None is -1
get_routing(r, line_id) ==
    IF line_id \in DOMAIN r.routing_map THEN r.routing_map[line_id] ELSE -1

\* AudioRouter.start with a device configured
start(r) == [r EXCEPT !.is_running = TRUE]

\* AudioRouter.route_line for a line whose audio_output is `channel`
route_line(r, line_id, channel) ==
    IF ~r.is_running THEN [router |-> r, ret |-> FALSE]
    ELSE IF channel = 0
    THEN [router |-> [r EXCEPT !.routing_map = SetItem(@, line_id, 0)], ret |-> TRUE]
    ELSE IF channel > num_outputs THEN [router |-> r, ret |-> FALSE]
    ELSE [router |-> [r EXCEPT !.routing_map = SetItem(@, line_id, channel)],
          ret |-> TRUE]

\* faulty variant of the tests: channel 0 is refused
M_update_routing_valid_nonzero(r, line_id, channel) ==
    /\ r.is_running
    /\ 1 <= line_id /\ line_id <= 8
    /\ 1 <= channel /\ channel <= num_outputs

\* update_routing, the tests before the lock
update_routing_valid(r, line_id, channel) ==
    /\ r.is_running
    /\ 1 <= line_id /\ line_id <= 8
    /\ 0 <= channel /\ channel <= num_outputs

\* faulty variant of the locked block: the line that held the channel is
\* moved to no output
M_update_routing_evicts(r, line_id, channel) ==
    [r EXCEPT !.routing_map =
        [x \in DOMAIN @ \cup {line_id} |->
            IF x = line_id THEN channel
            ELSE IF @[x] = channel THEN 0 ELSE @[x]]]

\* faulty variant of the locked block: the map is rebuilt from the entries of
\* the lines below line_id, so that the entry of a higher line is lost
M_update_routing_rebuilds(r, line_id, channel) ==
    [r EXCEPT !.routing_map =
        [x \in {y \in DOMAIN @ : y < line_id} \cup {line_id} |->
            IF x = line_id THEN channel ELSE @[x]]]

\* update_routing, the block under the lock
update_routing_locked(r, line_id, channel) ==
    [r EXCEPT !.routing_map = SetItem(@, line_id, channel)]

\* update_routing as one call
update_routing(r, line_id, channel) ==
    IF update_routing_valid(r, line_id, channel)
    THEN [router |-> update_routing_locked(r, line_id, channel), ret |-> TRUE]
    ELSE [router |-> r, ret |-> FALSE]

\* PhoneSystemApp.initialize: the router is started and route_line is called
\* for every line of the engine, line 1 first
RECURSIVE RouteLines(_, _, _)
RouteLines(r, ls, k) ==
    IF k > Len(ls) THEN r
    ELSE RouteLines(route_line(r, k, ls[k].audio_output).router, ls, k + 1)

\* the loop of _on_audio_channel_changed over the lines: the first other line
\* whose audio_output is new_channel, 0 if there is none (the engine of the
\* application has the 8 lines the loop visits; here it visits the lines
\* there are)
ConflictingLine(line_id, new_channel) ==
    LET S == {i \in (1..8) \cap DOMAIN lines :
                 i # line_id /\ lines[i].audio_output = new_channel}
    IN  IF S = {} THEN 0 ELSE CHOOSE i \in S : \A j \in S : i <= j

\* The operator picks new_channel for a line: LineWidget._on_channel_changed
\* emits when the channel differs from the line's, and
\* MainWindow._on_audio_channel_changed runs, with the operator's answer `yes`
\* to the dialog of a conflict; route_audio_signal is connected to
\* PhoneSystemApp._on_route_audio, which calls update_routing.
ChannelChanged(line_id, new_channel, yes) ==
    /\ new_channel # lines[line_id].audio_output
    /\ LET k == ConflictingLine(line_id, new_channel)
       IN  IF new_channel = 0 \/ k = 0
           THEN /\ lines' = [lines EXCEPT ![line_id].audio_output = new_channel]
                /\ router' = update_routing(router, line_id, new_channel).router
           ELSE IF yes
           THEN /\ lines' = [lines EXCEPT ![k].audio_output = 0,
                                          ![line_id].audio_output = new_channel]
                /\ router' = update_routing(router, line_id, new_channel).router
           ELSE UNCHANGED <<lines, router>>
    /\ UNCHANGED <<sysVars, now, last, audio, pipe>>

\* a control thread calls update_routing: the tests before the lock
UpdateRoutingEnter(c, line_id, channel) ==
    /\ callers[c].pc = "idle"
    /\ Len(audio.updates) < MaxUpdates
    /\ callers' =
          IF update_routing_valid(router, line_id, channel)
          THEN [callers EXCEPT ![c] = [IdleCaller EXCEPT !.pc = "ur_lock",
                    !.op = "update_routing", !.lid = line_id, !.i = channel]]
          ELSE [callers EXCEPT ![c] = [IdleCaller EXCEPT !.op = "update_routing",
                    !.lid = line_id, !.i = channel, !.ret = "False"]]
    /\ UNCHANGED <<lines, engine, bp, os, reader, now, last, audioVars, pipe>>

\* the thread holds the lock: the entry is assigned and the call returns True
\* (`tried` notes the lines of the calls of other threads that are past their
\* tests and wait for the lock)
UpdateRoutingLocked(c) ==
    /\ callers[c].pc = "ur_lock"
    /\ router' = update_routing_locked(router, callers[c].lid, callers[c].i)
    /\ audio' = [audio EXCEPT !.updates = Append(@, <<callers[c].lid, callers[c].i>>)]
    /\ callers' = [callers EXCEPT ![c].pc = "idle", ![c].ret = "True",
                       ![c].tried = {callers[d].lid : d \in
                           {e \in DOMAIN callers \ {c} : callers[e].pc = "ur_lock"}}]
    /\ UNCHANGED <<lines, engine, bp, os, reader, now, last, pipe>>

\* AudioRouter.stop (PhoneSystemApp.shutdown)
RouterStop ==
    /\ router.is_running
    /\ router' = [router EXCEPT !.is_running = FALSE]
    /\ UNCHANGED <<lines, sysVars, now, last, audio, pipe>>

\* AudioRouter.start
RouterStart ==
    /\ router' = start(router)
    /\ router' # router
    /\ UNCHANGED <<lines, sysVars, now, last, audio, pipe>>

\* ---- the application's routing: the operator changes channels
AppLines == 4

\* the state after PhoneSystemApp.initialize
InitApp ==
    /\ InitEngine(AppLines)
    /\ callers = [c \in {} |-> 0]
    /\ router = RouteLines(start(NewRouter), lines, 1)
    /\ audio = NewAudio

\* the channels the operator picks
AppChannels == 0..2

NextApp ==
    \E l \in DOMAIN lines : \E ch \in AppChannels : \E yes \in BOOLEAN :
        ChannelChanged(l, ch, yes)

SpecApp == InitApp /\ [][NextApp]_vars

\* ---- the router called by two control threads
\* line ids and channels a caller may pass: the valid ones and one off each end
\* of the range the router tests
RouterLineIds == {0, 1, 2, 9}
RouterChannels == {-1, 0, 2, num_outputs + 1}

InitRouter ==
    /\ InitEngine(2)
    /\ callers = [c \in {"gui", "timer"} |-> IdleCaller]
    /\ InitAudio

NextRouter ==
    \/ RouterStart
    \/ RouterStop
    \/ \E c \in DOMAIN callers : \E l \in RouterLineIds : \E ch \in RouterChannels :
            UpdateRoutingEnter(c, l, ch)
    \/ \E c \in DOMAIN callers : UpdateRoutingLocked(c)

SpecRouter == InitRouter /\ [][NextRouter]_vars

\* ---- the test tone: start_continuous_tone, stop_continuous_tone
\* A tone generator process is audio.procs[pid]: the channel it plays on and
\* whether it is alive.  A start_in_thread thread is audio.tasks[k]: its
\* position, its channel, and its locals old_proc and proc (pids, 0 is None).
\* audio.calls lists the calls a control thread has made, in order: a start
\* that launched its thread as its channel, a start that returned False as
\* -1, a stop as 0.  audio.taken is the set of the processes that a
\* stop_continuous_tone has taken from the record.

MaxStarts == 2          \* start_in_thread threads that are followed
MaxCalls == 4           \* start and stop calls that are followed
ToneChannels == {4, 5, num_outputs + 1}

Alive == {p \in DOMAIN audio.procs : audio.procs[p].alive}

\* proc.kill() and the wait for it; killing None or a dead process does nothing
Kill(procs, p) ==
    IF p \in DOMAIN procs THEN [procs EXCEPT ![p].alive = FALSE] ELSE procs

\* pkill -f tone_generator: every tone generator process is ended
KillAll(procs) == [p \in DOMAIN procs |-> [procs[p] EXCEPT !.alive = FALSE]]

\* start_continuous_tone: the tests, the launch of start_in_thread, the return
StartTone(c, channel) ==
    /\ callers[c].pc = "idle"
    /\ Len(audio.calls) < MaxCalls
    /\ Len(audio.tasks) < MaxStarts
    /\ IF router.is_running /\ 1 <= channel /\ channel <= num_outputs
       THEN /\ audio' = [audio EXCEPT
                   !.tasks = Append(@, [pc |-> "swap", channel |-> channel,
                                        old_proc |-> 0, proc |-> 0]),
                   !.calls = Append(@, channel)]
            /\ callers' = [callers EXCEPT ![c] = [IdleCaller EXCEPT
                   !.op = "start_continuous_tone", !.i = channel, !.ret = "True"]]
       ELSE /\ audio' = [audio EXCEPT !.calls = Append(@, -1)]
            /\ callers' = [callers EXCEPT ![c] = [IdleCaller EXCEPT
                   !.op = "start_continuous_tone", !.i = channel, !.ret = "False"]]
    /\ UNCHANGED <<lines, engine, bp, os, reader, now, last, router, pipe>>

\* start_in_thread, under the lock: a recorded tone process is taken over as
\* old_proc and the tone fields are cleared
TaskSwap(k) ==
    /\ audio.tasks[k].pc = "swap"
    /\ IF router.test_tone_process # 0
       THEN /\ audio' = [audio EXCEPT !.tasks[k].old_proc = router.test_tone_process,
                                      !.tasks[k].pc = "kill"]
            /\ router' = [router EXCEPT !.test_tone_process = 0,
                              !.test_tone_active = FALSE, !.test_tone_channel = 0]
       ELSE /\ audio' = [audio EXCEPT !.tasks[k].pc = "spawn"]
            /\ router' = router
    /\ UNCHANGED <<lines, sysVars, now, last, pipe>>

\* start_in_thread: old_proc.kill()
TaskKill(k) ==
    /\ audio.tasks[k].pc = "kill"
    /\ audio' = [audio EXCEPT !.procs = Kill(@, audio.tasks[k].old_proc),
                              !.tasks[k].pc = "spawn"]
    /\ UNCHANGED <<lines, sysVars, now, last, router, pipe>>

\* start_in_thread: subprocess.Popen of tone_generator.py for the channel
TaskSpawn(k) ==
    /\ audio.tasks[k].pc = "spawn"
    /\ audio' = [audio EXCEPT
            !.procs = Append(@, [channel |-> audio.tasks[k].channel, alive |-> TRUE]),
            !.tasks[k].proc = Len(audio.procs) + 1,
            !.tasks[k].pc = "store"]
    /\ UNCHANGED <<lines, sysVars, now, last, router, pipe>>

\* start_in_thread, under the lock: the new process is recorded as the tone
TaskStore(k) ==
    /\ audio.tasks[k].pc = "store"
    /\ router' = [router EXCEPT !.test_tone_process = audio.tasks[k].proc,
                                !.test_tone_active = TRUE,
                                !.test_tone_channel = audio.tasks[k].channel]
    /\ audio' = [audio EXCEPT !.tasks[k].pc = "done"]
    /\ UNCHANGED <<lines, sysVars, now, last, pipe>>

\* stop_continuous_tone, under the lock: with no active tone it returns True
\* at once; otherwise it takes the recorded process and clears the tone fields
StopToneEnter(c) ==
    /\ callers[c].pc = "idle"
    /\ Len(audio.calls) < MaxCalls
    /\ audio' = [audio EXCEPT !.calls = Append(@, 0),
                              !.taken = IF router.test_tone_active
                                        THEN @ \cup ({router.test_tone_process} \ {0})
                                        ELSE @]
    /\ IF ~router.test_tone_active
       THEN /\ callers' = Return(c, "stop_continuous_tone", "True")
            /\ router' = router
       ELSE /\ callers' = [callers EXCEPT ![c] = [IdleCaller EXCEPT !.pc = "st_kill",
                   !.op = "stop_continuous_tone", !.i = router.test_tone_process]]
            /\ router' = [router EXCEPT !.test_tone_process = 0,
                              !.test_tone_active = FALSE, !.test_tone_channel = 0]
    /\ UNCHANGED <<lines, engine, bp, os, reader, now, last, pipe>>

\* faulty variant of the kill of stop_continuous_tone: the process that was
\* taken is left running
M_StopToneKill_skips(c) ==
    /\ callers[c].pc = "st_kill"
    /\ callers' = [callers EXCEPT ![c].pc = "st_term"]
    /\ UNCHANGED <<lines, engine, bp, os, reader, now, last, router, audio, pipe>>

\* stop_continuous_tone: proc.kill()
StopToneKill(c) ==
    /\ callers[c].pc = "st_kill"
    /\ audio' = [audio EXCEPT !.procs = Kill(@, callers[c].i)]
    /\ callers' = [callers EXCEPT ![c].pc = "st_term"]
    /\ UNCHANGED <<lines, engine, bp, os, reader, now, last, router, pipe>>

\* stop_continuous_tone, the safety cleanup: pkill -TERM -f tone_generator
StopToneTerm(c) ==
    /\ callers[c].pc = "st_term"
    /\ audio' = [audio EXCEPT !.procs = KillAll(@)]
    /\ callers' = [callers EXCEPT ![c].pc = "st_pkill"]
    /\ UNCHANGED <<lines, engine, bp, os, reader, now, last, router, pipe>>

\* stop_continuous_tone: pkill -9 -f tone_generator, and the return
StopTonePkill(c) ==
    /\ callers[c].pc = "st_pkill"
    /\ audio' = [audio EXCEPT !.procs = KillAll(@)]
    /\ callers' = Return(c, "stop_continuous_tone", "True")
    /\ UNCHANGED <<lines, engine, bp, os, reader, now, last, router, pipe>>

\* start_in_thread: subprocess.Popen raises; the except clause, under the
\* lock, clears the active flag and the channel, and the thread ends
TaskSpawnFail(k) ==
    /\ audio.tasks[k].pc = "spawn"
    /\ router' = [router EXCEPT !.test_tone_active = FALSE, !.test_tone_channel = 0]
    /\ audio' = [audio EXCEPT !.tasks[k].pc = "done"]
    /\ UNCHANGED <<lines, sysVars, now, last, pipe>>

\* the state after PhoneSystemApp.initialize, one control thread (the GUI)
InitTone ==
    /\ InitEngine(1)
    /\ callers = [c \in {"gui"} |-> IdleCaller]
    /\ router = RouteLines(start(NewRouter), lines, 1)
    /\ audio = NewAudio

\* a start_in_thread thread or a thread inside stop_continuous_tone steps
ToneStep ==
    \/ \E k \in DOMAIN audio.tasks : TaskSwap(k)
    \/ \E k \in DOMAIN audio.tasks : TaskKill(k)
    \/ \E k \in DOMAIN audio.tasks : TaskSpawn(k)
    \/ \E k \in DOMAIN audio.tasks : TaskStore(k)
    \/ \E c \in DOMAIN callers : StopToneKill(c)
    \/ \E c \in DOMAIN callers : StopToneTerm(c)
    \/ \E c \in DOMAIN callers : StopTonePkill(c)

NextTone ==
    \/ \E c \in DOMAIN callers : \E ch \in ToneChannels : StartTone(c, ch)
    \/ \E c \in DOMAIN callers : StopToneEnter(c)
    \/ \E k \in DOMAIN audio.tasks : TaskSwap(k)
    \/ \E k \in DOMAIN audio.tasks : TaskKill(k)
    \/ \E k \in DOMAIN audio.tasks : TaskSpawn(k)
    \/ \E k \in DOMAIN audio.tasks : TaskStore(k)
    \/ \E c \in DOMAIN callers : StopToneKill(c)
    \/ \E c \in DOMAIN callers : StopToneTerm(c)
    \/ \E c \in DOMAIN callers : StopTonePkill(c)

\* every thread that can take a step takes one in the end
SpecTone == InitTone /\ [][NextTone]_vars /\ WF_vars(ToneStep)

\* ---- one line whose calls are told apart: the process started, calls made
\* by the GUI, and closed and hangup events of any call dialled so far
LateEvents == {"other", "closed", "hangupok"}
LateNumbers == {PyStr(<<"5">>), PyStr(<<"7">>)}

InitLate ==
    /\ InitCalls(1, TRUE)
    /\ callers = [c \in {"gui"} |-> IdleCaller]
    /\ InitAudio

NextLate ==
    \/ \E c \in DOMAIN callers : EngineStart(c, engine.num_lines)
    \/ \E c \in DOMAIN callers : \E lid \in DOMAIN lines : \E n \in LateNumbers :
            MakeCallEnter(c, lid, n)
    \/ \E c \in DOMAIN callers : BpMakeCall(c)
    \/ \E c \in DOMAIN callers : McSetId(c)
    \/ \E c \in DOMAIN callers : McDial(c)
    \/ \E c \in DOMAIN callers : \E lid \in DOMAIN lines : HangupEnter(c, lid)
    \/ \E c \in DOMAIN callers : BpHangup(c)
    \/ \E l \in DOMAIN lines : \E e \in LateEvents : ReaderRead(l, e)
    \/ \E l \in DOMAIN lines : ReaderClosed(l)
    \/ \E l \in DOMAIN lines : ReaderClosedReset(l)
    \/ \E l \in DOMAIN lines : ReaderClosedClear(l)

SpecLate == InitLate /\ [][NextLate]_vars

\* ---- the test tone with spawns that may fail
NextToneFail ==
    \/ NextTone
    \/ \E k \in DOMAIN audio.tasks : TaskSpawnFail(k)

SpecToneFail ==
    /\ InitTone
    /\ [][NextToneFail]_vars
    /\ WF_vars(ToneStep \/ \E k \in DOMAIN audio.tasks : TaskSpawnFail(k))

\* ===================================================== the claims
\* ---- direct PhoneLine use (SpecLine)

Active == {DIALING, RINGING, CONNECTED}

\* the edges of the line's state machine
LegalEdges ==
    {<<IDLE, DIALING>>,
     <<DIALING, RINGING>>, <<DIALING, CONNECTED>>, <<DIALING, DISCONNECTED>>,
     <<RINGING, CONNECTED>>, <<RINGING, DISCONNECTED>>,
     <<CONNECTED, DISCONNECTED>>, <<DISCONNECTED, IDLE>>, <<ERROR, IDLE>>}
        \cup {<<s, ERROR>> : s \in LineState \ {ERROR}}

\* the state changes of the last operation lead from the state at entry to
\* the state now, one after the other
ChangesChain ==
    LET cbs == last.cbs
    IN  /\ \A i \in 1..Len(cbs) :
              cbs[i][1] = (IF i = 1 THEN last.pre.state ELSE cbs[i - 1][2])
        /\ lines[last.lid].state =
              (IF cbs = <<>> THEN last.pre.state ELSE cbs[Len(cbs)][2])

\* C1: every change of a line's state made by set_state, dial, call_connected,
\* hangup or reset follows a legal edge of the state machine, and a set_state
\* request for any other pair of different states leaves the state as it was.
C1_LegalTransitions ==
    /\ ChangesChain
    /\ \A i \in 1..Len(last.cbs) : last.cbs[i] \in LegalEdges
    /\ (last.op = "set_state" /\ last.pre.state # last.to
            /\ <<last.pre.state, last.to>> \notin LegalEdges)
          => lines[last.lid].state = last.pre.state

C1_Witness ==
    /\ last.op = "set_state" /\ last.pre.state = IDLE /\ last.to = CONNECTED
    /\ lines[last.lid].state = IDLE

NonBlankStr(v) == v.t = "str" /\ \E i \in 1..Len(v.s) : v.s[i] \notin Whitespace

\* C4: dial(number) returns True exactly when the line is Idle and number is a
\* non-blank string, and then the line is Dialing with remote_number = number;
\* otherwise it returns False.
C4_Dial ==
    last.op = "dial" =>
        /\ last.ret = (last.pre.state = IDLE /\ NonBlankStr(last.arg))
        /\ last.ret => /\ lines[last.lid].state = DIALING
                       /\ lines[last.lid].remote_number = last.arg

C4_Witness ==
    /\ last.op = "dial" /\ last.ret
    /\ lines[last.lid].state = DIALING
    /\ lines[last.lid].remote_number = PyStr(<<"+", "1">>)

CallFields(ln) == <<ln.state, ln.remote_number, ln.call_id, ln.call_start_time>>

\* C5: an operation that asks for a transition that is not legal from the
\* current state (dial when not Idle, hangup with no active call,
\* set_state(RINGING) when not Dialing, call_connected when neither Dialing nor
\* Ringing) leaves state, remote_number, call_id and call_start_time unchanged.
C5_RejectedChangesNothing ==
    (\/ last.op = "dial" /\ last.pre.state # IDLE
     \/ last.op = "hangup" /\ last.pre.state \notin Active
     \/ last.op = "set_state" /\ last.to = RINGING /\ last.pre.state # DIALING
     \/ last.op = "call_connected" /\ last.pre.state \notin {DIALING, RINGING})
        => CallFields(lines[last.lid]) = CallFields(last.pre)

\* C6: reset() ends with the line Idle and remote_number, call_start_time and
\* call_id cleared, whatever the state it is called in; called in Dialing,
\* Ringing or Connected, the observer sees exactly (state -> Disconnected) and
\* then (Disconnected -> Idle).
C6_Reset ==
    last.op = "reset" =>
        /\ lines[last.lid].state = IDLE
        /\ lines[last.lid].remote_number = None
        /\ lines[last.lid].call_start_time = 0
        /\ lines[last.lid].call_id = None
        /\ last.pre.state \in Active =>
              last.cbs = << <<last.pre.state, DISCONNECTED>>, <<DISCONNECTED, IDLE>> >>

C6_Witness ==
    /\ last.op = "reset" /\ last.pre.state = CONNECTED
    /\ last.pre.call_start_time # 0
    /\ lines[last.lid].state = IDLE
    /\ Len(last.cbs) = 2

\* C7: reset() on a line that is already Idle changes no field and makes no
\* state-change callback, and a second reset() changes nothing after a first.
C7_ResetIdempotent ==
    last.op = "reset" =>
        /\ last.pre.state = IDLE => (lines[last.lid] = last.pre /\ last.cbs = <<>>)
        /\ reset(lines[last.lid], now).line = lines[last.lid]

\* the two digits of minutes and of seconds of an elapsed time
IsClock(txt, elapsed) ==
    /\ Len(txt) = 5 /\ txt[3] = ":"
    /\ \E m1, m2, s1, s2 \in 0..9 :
          /\ txt = <<Digits[m1 + 1], Digits[m2 + 1], ":", Digits[s1 + 1], Digits[s2 + 1]>>
          /\ 10 * s1 + s2 < 60
          /\ 60 * (10 * m1 + m2) + 10 * s1 + s2 = elapsed

Elapsed == IF last.pre.call_start_time # 0 THEN last.t - last.pre.call_start_time ELSE 0

\* the status text as the claim describes it, for the number shown
StatusIs(shown) ==
    LET txt == last.text
        n == Len(shown)
    IN  CASE last.pre.state = IDLE -> txt = <<"A", "v", "a", "i", "l", "a", "b", "l", "e">>
          [] last.pre.state = DIALING ->
                txt = <<"D", "i", "a", "l", "i", "n", "g", " ">> \o shown
          [] last.pre.state = RINGING ->
                txt = <<"R", "i", "n", "g", "i", "n", "g", " ">> \o shown
          [] last.pre.state = CONNECTED ->
                /\ Len(txt) = n + 8
                /\ SubSeq(txt, 1, n + 2) = shown \o <<" ", "(">>
                /\ IsClock(SubSeq(txt, n + 3, n + 7), Elapsed)
                /\ txt[n + 8] = ")"
          [] last.pre.state = DISCONNECTED ->
                txt = <<"D", "i", "s", "c", "o", "n", "n", "e", "c", "t", "i", "n", "g",
                        ".", ".", ".">>
          [] OTHER -> txt = <<"E", "r", "r", "o", "r">>

C2_NumberIffInCall ==
    \A l \in DOMAIN lines :
        Truthy(lines[l].remote_number)
            <=> lines[l].state \in {DIALING, RINGING, CONNECTED, DISCONNECTED}

\* C3: whenever no operation holds a line's lock, call_start_time is set if the
\* line is Connected and only if it is Connected or Disconnected, and an Idle
\* line has neither call_start_time nor call_id set.
C3_StartTimeIffConnected ==
    \A l \in DOMAIN lines :
        /\ lines[l].state = CONNECTED => lines[l].call_start_time # 0
        /\ lines[l].call_start_time # 0 => lines[l].state \in {CONNECTED, DISCONNECTED}
        /\ lines[l].state = IDLE =>
              (lines[l].call_start_time = 0 /\ lines[l].call_id = None)

\* C9: a make_call on an Idle line of a running engine whose dial command was
\* written returns True with the line in Dialing and remote_number the number
\* without its spaces, whatever the monitor thread does with the events the
\* process sends after the dial command (quiet: the line was Idle and the
\* monitor thread held no event when the command was written; a valid number
\* has a character that is not whitespace).
C9_MakeCallDials ==
    [][\A c \in DOMAIN callers :
          (callers[c].pc = "mc_dial" /\ callers[c].quiet /\ NonBlankStr(callers[c].num)
                /\ callers'[c].pc = "idle")
              => /\ callers'[c].ret = "True"
                 /\ lines'[callers[c].lid].state = DIALING
                 /\ lines'[callers[c].lid].remote_number = callers[c].num]_vars

\* C10: when BaresipProcess.make_call returns False because the line rejected
\* dial(), current_call_id and the line's state, remote_number, call_id and
\* call_start_time are as they were when make_call was entered.
C10_RejectedDialNotHalfApplied ==
    [][\A c \in DOMAIN callers :
          (callers[c].pc = "mc_dial" /\ lines[callers[c].lid].state # IDLE
                /\ callers'[c].pc = "idle" /\ callers'[c].ret = "False")
              => /\ bp'[callers[c].lid].current_call_id = callers[c].pre[2]
                 /\ CallFields(lines'[callers[c].lid]) = CallFields(callers[c].pre[1])]_vars

\* a number as C11 describes the invalid ones: a character outside digits, +,
\* -, *, # and whitespace, or nothing left when whitespace is stripped
InvalidNumber(v) ==
    \/ \E i \in 1..Len(v.s) : v.s[i] \notin NumberChars \cup Whitespace
    \/ strip(v.s) = <<>>

\* a step of control thread c inside BaresipProcess.make_call
MakeCallStep(c) ==
    /\ callers[c].op = "make_call"
    /\ callers[c].pc \in {"bp_make_call", "mc_set_id", "mc_dial"}
    /\ callers'[c] # callers[c]

\* C11: make_call with an invalid number (a character outside digits, +, -, *,
\* #, whitespace, or empty once whitespace is stripped) returns False and
\* changes nothing: no dial command is written, and the line and the
\* supervisor's current_call_id stay as they are.  (Removing the spaces does
\* not make an invalid number valid, so num is invalid throughout the call.)
C11_InvalidNumberRejected ==
    [][\A c \in DOMAIN callers :
          (MakeCallStep(c) /\ InvalidNumber(callers[c].num))
              => /\ callers'[c].pc = "idle" /\ callers'[c].ret = "False"
                 /\ callers'[c].wrote = "none"
                 /\ lines' = lines
                 /\ bp' = bp]_vars

\* the supervisor of line l would write, and the process at the other end of
\* the pipe has exited: the write raises BrokenPipeError
WriteFails(l) == bp[l].running /\ bp[l].process /\ os[l] # "alive"

\* C12: when the write of the dial command (make_call) or of the hangup command
\* (hangup) fails with a broken pipe, the operation returns False, the
\* supervisor is marked not running and the line is reset to Idle with
\* remote_number cleared; the failed make_call sets no current_call_id.
C12_BrokenPipe ==
    [][\A c \in DOMAIN callers :
          LET l == callers[c].lid
          IN  (/\ \/ callers[c].pc = "bp_hangup"
                  \/ callers[c].pc = "bp_make_call" /\ ~InvalidNumber(callers[c].num)
               /\ WriteFails(l)
               /\ callers'[c] # callers[c])
                  => /\ callers'[c].pc = "idle" /\ callers'[c].ret = "False"
                     /\ callers'[c].wrote = "broken"
                     /\ ~bp'[l].running
                     /\ lines'[l].state = IDLE
                     /\ lines'[l].remote_number = None
                     /\ bp'[l].current_call_id = bp[l].current_call_id]_vars

C12_Witness ==
    \E c \in DOMAIN callers :
        /\ callers[c].pc = "idle" /\ callers[c].op = "hangup_call"
        /\ callers[c].wrote = "broken" /\ callers[c].ret = "False"
        /\ \E l \in DOMAIN lines :
              /\ ~bp[l].running /\ os[l] = "exited"
              /\ lines[l].state = IDLE /\ lines[l].remote_number = None
              /\ Truthy(bp[l].current_call_id)

\* C13: when a line's process exits while its supervisor is running, the
\* monitor thread reads end-of-stream, leaves its loop and, in whatever state
\* the line is, marks the supervisor not running and resets the line to Idle
\* with remote_number empty; no operation on the line is needed for that (a
\* running supervisor always has its monitor thread alive to do it).
C13_ProcessDeathResets ==
    [][\A l \in DOMAIN lines :
          /\ (bp'[l].running /\ bp'[l].process)
                => reader'[l] \notin {"none", "done", "crashed"}
          /\ (reader[l] = "read" /\ os[l] = "exited" /\ bp[l].process
                    /\ reader'[l] # reader[l])
                => reader'[l] = "finally"
          /\ (reader[l] = "finally" /\ reader'[l] # reader[l]
                    /\ os[l] = "exited" /\ bp[l].running)
                => /\ ~bp'[l].running
                   /\ lines'[l].state = IDLE
                   /\ lines'[l].remote_number = None]_vars

\* the monitor thread has ended by its loop with the process exited and the
\* handle still held, after a call on the line returned True and left its
\* current_call_id: the line is back to Idle and nothing but the finally
\* clause cleared running
C13_Witness ==
    \E l \in DOMAIN lines :
        /\ reader[l] = "done" /\ os[l] = "exited" /\ bp[l].process
        /\ ~bp[l].running
        /\ Truthy(bp[l].current_call_id)
        /\ lines[l].state = IDLE /\ lines[l].remote_number = None
        /\ \A c \in DOMAIN callers :
              callers[c].pc = "idle" /\ callers[c].op = "make_call"
                  /\ callers[c].ret = "True"

\* C14: BaresipProcess.hangup() returns False and writes nothing when the
\* supervisor is not running or has no process (its stdin closed); when the
\* write succeeds it returns True and leaves the line and current_call_id as
\* they are: the line changes only when the monitor thread handles the
\* process's answer.  Checked on hangup_call's call of hangup() and on stop()'s.
C14_HangupOnlyWrites ==
    [][\A c \in DOMAIN callers :
          /\ (callers[c].pc = "bp_hangup" /\ callers'[c] # callers[c]) =>
                LET l == callers[c].lid
                IN  /\ (~bp[l].running \/ ~bp[l].process)
                          => /\ callers'[c].ret = "False" /\ callers'[c].wrote = "none"
                             /\ lines' = lines /\ bp' = bp
                    /\ callers'[c].wrote = "hangup"
                          => /\ callers'[c].ret = "True"
                             /\ lines' = lines /\ bp' = bp
                    /\ callers'[c].ret = "True" => callers'[c].wrote = "hangup"
          /\ (callers[c].pc = "stop_hangup" /\ callers'[c].tried # callers[c].tried) =>
                \A l \in callers'[c].tried \ callers[c].tried :
                    (~bp[l].running \/ ~bp[l].process \/ os[l] = "alive")
                        => (lines' = lines /\ bp' = bp)]_vars

C14_Witness ==
    \E c \in DOMAIN callers :
        /\ callers[c].pc = "idle" /\ callers[c].op = "hangup_call"
        /\ callers[c].ret = "True" /\ callers[c].wrote = "hangup"
        /\ \E l \in DOMAIN lines :
              /\ lines[l].state = CONNECTED
              /\ lines[l].remote_number = bp[l].current_call_id
              /\ Truthy(bp[l].current_call_id)

\* C15: a ringing event handled by the monitor thread moves the line to Ringing
\* exactly when the line is Dialing, and the status text then reads
\* "Ringing <dialed number>"; in every other state it changes nothing on the
\* line.
C15_RingingEvent ==
    [][\A l \in DOMAIN lines :
          (reader[l] = "ringing" /\ reader'[l] # reader[l]) =>
              IF lines[l].state = DIALING
              THEN /\ lines'[l] = [lines[l] EXCEPT !.state = RINGING]
                   /\ lines[l].remote_number.t = "str"
                   /\ get_status_string(lines'[l], now)
                         = <<"R", "i", "n", "g", "i", "n", "g", " ">>
                              \o lines[l].remote_number.s
              ELSE lines'[l] = lines[l]]_vars

\* C19: SIPEngine.make_call(lineId, n) returns False and changes nothing when
\* the engine is not running, lineId is outside 1..num_lines or the line is not
\* Idle; SIPEngine.hangup_call(lineId) returns False and changes nothing when
\* lineId is out of range or the line is not Dialing, Ringing or Connected.
\* (A call that goes on to the supervisor has passed every one of these tests;
\* a call that does not has returned False with nothing changed.)
C19_EngineGuards ==
    [][\A c \in DOMAIN callers :
          LET cur == callers[c]
              nxt == callers'[c]
              Rejected == /\ nxt.ret = "False" /\ nxt.wrote = "none"
                          /\ lines' = lines /\ bp' = bp /\ engine' = engine
                          /\ os' = os /\ reader' = reader
          IN  /\ (cur.pc = "idle" /\ nxt # cur /\ nxt.op = "make_call") =>
                    IF nxt.pc = "idle" THEN Rejected
                    ELSE /\ engine.is_running
                         /\ nxt.lid \in 1..engine.num_lines
                         /\ lines[nxt.lid].state = IDLE
              /\ (cur.pc = "idle" /\ nxt # cur /\ nxt.op = "hangup_call") =>
                    IF nxt.pc = "idle" THEN Rejected
                    ELSE /\ nxt.lid \in 1..engine.num_lines
                         /\ lines[nxt.lid].state \in Active]_vars

\* make_call has returned False on an engine that was started and stopped
C19_Witness ==
    \E c \in DOMAIN callers :
        /\ callers[c].pc = "idle" /\ callers[c].op = "make_call"
        /\ callers[c].ret = "False" /\ callers[c].wrote = "none"
        /\ ~engine.is_running
        /\ \E l \in DOMAIN lines : os[l] = "exited"

\* ---- two control threads on one line (SpecRace)

\* both control threads have returned from make_call
BothReturned ==
    \A c \in DOMAIN callers : callers[c].pc = "idle" /\ callers[c].op = "make_call"

\* C20: when two callers invoke SIPEngine.make_call concurrently on the same
\* Idle line with different valid numbers, at most one call returns True, the
\* call that returns True leaves the line Dialing with its number as
\* remote_number, and once both have returned, one of them with True, the line
\* is Dialing and the supervisor's current_call_id is that same number.
C20_ConcurrentMakeCall ==
    [][/\ \A c \in DOMAIN callers :
            (callers[c].pc = "mc_dial" /\ callers'[c].pc = "idle"
                    /\ callers'[c].ret = "True")
                => /\ lines'[callers[c].lid].state = DIALING
                   /\ lines'[callers[c].lid].remote_number = callers[c].num
       /\ BothReturned' =>
            /\ Cardinality({c \in DOMAIN callers : callers'[c].ret = "True"}) <= 1
            /\ (\E c \in DOMAIN callers : callers'[c].ret = "True") =>
                  \A l \in DOMAIN lines :
                      /\ lines'[l].state = DIALING
                      /\ bp'[l].current_call_id = lines'[l].remote_number]_vars

\* ---- an engine of two lines (SpecTwoLines)

\* nothing of the engine is left: no supervisor registered or running, no
\* process alive, the engine not running
NothingRuns ==
    /\ engine.baresip_processes = <<>>
    /\ ~engine.is_running
    /\ \A l \in DOMAIN bp : ~bp[l].running /\ ~bp[l].process /\ os[l] # "alive"

\* C16: if a supervisor fails to start during SIPEngine.start(), start returns
\* False and nothing started by that call remains: every supervisor that was
\* started has been stopped, the supervisor list is empty, is_running is False
\* and every line is Idle.
C16_FailedStartLeavesNothing ==
    [][\A c \in DOMAIN callers :
          (/\ callers'[c].pc = "idle" /\ callers'[c].op = "start"
           /\ callers'[c] # callers[c]
           /\ \/ callers[c].failed
              \/ callers[c].pc = "idle" /\ callers'[c].ret = "False")
              => /\ callers'[c].ret = "False"
                 /\ NothingRuns'
                 /\ \A l \in DOMAIN lines : lines'[l].state = IDLE]_vars

\* the lines whose supervisor is registered with the engine
Registered == {engine.baresip_processes[j] : j \in 1..Len(engine.baresip_processes)}

\* C17: in SIPEngine.stop() the hangup attempt for every line with a tracked
\* call comes before any supervisor is stopped, and every supervisor is stopped
\* before stop resets any line.
C17_StopOrder ==
    [][\A c \in DOMAIN callers :
          \* a hangup attempt: no registered supervisor has been stopped
          /\ (callers[c].pc = "stop_hangup" /\ callers'[c].tried # callers[c].tried)
                => \A l \in Registered : bp[l].process
          \* a supervisor is stopped: every tracked call has had its attempt
          /\ (callers[c].pc = "stop_proc" /\ callers[c].i <= Len(engine.baresip_processes)
                    /\ callers'[c] # callers[c])
                => \A l \in Registered :
                      Truthy(bp[l].current_call_id) => l \in callers[c].tried
          \* a line is reset: every supervisor has been stopped
          /\ (callers[c].pc = "stop_reset" /\ callers[c].i <= engine.num_lines
                    /\ callers'[c] # callers[c])
                => \A l \in DOMAIN bp : ~bp[l].running /\ ~bp[l].process]_vars

\* stop() has tried the hangup on both lines, stopped both supervisors and
\* reset the first line
C17_Witness ==
    \E c \in DOMAIN callers :
        /\ callers[c].pc = "stop_reset" /\ callers[c].op = "stop"
        /\ callers[c].i = 2
        /\ callers[c].tried = {1, 2}
        /\ \A l \in DOMAIN bp : ~bp[l].process /\ Truthy(bp[l].current_call_id)

\* ---- the running system, stopped (Spec)

\* C18: once SIPEngine.stop() has returned, and until the next operation on
\* the engine, every line is Idle with remote_number empty, no supervisor is
\* registered or running and is_running is False, also when a monitor thread
\* was still handling an event while stop ran.
C18_StoppedStaysStopped ==
    \A c \in DOMAIN callers :
        (callers[c].pc = "idle" /\ callers[c].op = "stop") =>
            /\ \A l \in DOMAIN lines :
                  lines[l].state = IDLE /\ lines[l].remote_number = None
            /\ engine.baresip_processes = <<>>
            /\ \A l \in DOMAIN bp : ~bp[l].running
            /\ ~engine.is_running

\* ---- an engine of two lines, calls on both (SpecFrame)

\* the step is one of an operation on line i or on its supervisor: a step of
\* its monitor thread, the exit of its process, or a step of make_call or
\* hangup_call for line i (the write and its failure included)
StepOnLine(i) ==
    \/ reader'[i] # reader[i]
    \/ os'[i] # os[i]
    \/ \E c \in DOMAIN callers :
          /\ callers'[c] # callers[c]
          /\ \/ callers[c].pc \in {"bp_make_call", "mc_set_id", "mc_dial", "bp_hangup"}
                    /\ callers[c].lid = i
             \/ callers[c].pc = "idle" /\ callers'[c].pc \in {"bp_make_call", "bp_hangup"}
                    /\ callers'[c].lid = i

\* C21: an operation on line i or on its supervisor (make_call, hangup_call, a
\* monitor thread event, a write failure, the death of line i's process)
\* leaves state, remote_number, call_id and call_start_time of every other
\* line j and running and current_call_id of supervisor j unchanged.
C21_OtherLinesUntouched ==
    [][\A i \in DOMAIN lines : \A j \in DOMAIN lines \ {i} :
          (StepOnLine(i) /\ engine.is_running) =>
              /\ CallFields(lines'[j]) = CallFields(lines[j])
              /\ bp'[j].running = bp[j].running
              /\ bp'[j].current_call_id = bp[j].current_call_id]_vars

\* line 2 is in a call that began after line 1's process died and its
\* monitor thread reset line 1
C21_Witness ==
    /\ os[1] = "exited" /\ reader[1] = "done" /\ ~bp[1].running
    /\ lines[1].state = IDLE
    /\ bp[2].running /\ lines[2].state = CONNECTED
    /\ lines[2].remote_number = PyStr(<<"5">>)
    /\ lines[2].call_id = PyStr(<<"5">>)

\* ---- the engine stopped step by step (SpecStop)

\* a control thread is inside BaresipProcess.stop with a process to end
InBsStop == \E c \in DOMAIN callers : callers[c].pc \in BsPcs

\* C22: BaresipProcess.stop() always terminates, whether the process exits on
\* the quit command, ignores it or is already dead: a process still alive
\* after the bounded wait is killed, and when stop returns the supervisor is
\* not running, its process handle is cleared and both pipes are closed.
C22_StopTerminates ==
    /\ InBsStop ~> ~InBsStop
    /\ [][\A c \in DOMAIN callers :
            /\ (callers[c].pc = "bs_wait" /\ callers'[c] # callers[c]
                    /\ os[Stopping(c)] = "alive")
                  => callers'[c].pc = "bs_kill"
            /\ (callers[c].pc = "bs_kill" /\ callers'[c] # callers[c])
                  => os'[Stopping(c)] = "exited"
            /\ (callers[c].pc \in BsPcs /\ callers'[c].pc \notin BsPcs) =>
                  LET l == Stopping(c)
                  IN  /\ ~bp'[l].running /\ ~bp'[l].process
                      /\ bp'[l].stdin = "closed" /\ bp'[l].stdout = "closed"
                      /\ os'[l] = "exited"]_vars

\* stop() has returned from a supervisor whose process ignored the quit
\* command and was killed
C22_Witness ==
    \E c \in DOMAIN callers :
        /\ callers[c].pc = "stop_proc" /\ callers[c].i = 2
        /\ callers[c].killed = {1}
        /\ ~bp[1].running /\ ~bp[1].process
        /\ bp[1].stdin = "closed" /\ bp[1].stdout = "closed"
        /\ os[1] = "exited"

\* ---- the application's routing (SpecApp)

\* C23: in every reachable state of routing_map at most one line is mapped to
\* any given non-zero channel, after any sequence of channel changes made
\* through the GUI handler, conflicts confirmed or cancelled.
C23_OneLinePerChannel ==
    \A a, b \in DOMAIN router.routing_map :
        (a # b /\ router.routing_map[a] # 0)
            => router.routing_map[a] # router.routing_map[b]

\* ---- the router called by two control threads (SpecRouter)

\* thread c enters update_routing in this step; its arguments are then
\* callers'[c].lid and callers'[c].i
UrEnters(c) == callers[c].pc = "idle" /\ callers'[c] # callers[c]

\* thread c runs the locked block of update_routing and returns in this step
UrReturns(c) == callers[c].pc = "ur_lock" /\ callers'[c].pc = "idle"

\* the lines that have an entry, and the ids a caller may pass
RoutingKeys == DOMAIN router.routing_map \cup RouterLineIds

\* C24: update_routing(l, c) never modifies the routing entry of a line other
\* than l: a started router accepts any channel 0..num_outputs for a line
\* 1..8 whoever holds that channel, assigns the entry of l and returns True,
\* and every other entry is as before; so with channel 2 held by line 1,
\* after update_routing(1, 0) and update_routing(2, 2) line 2 is mapped to
\* channel 2 and line 1 to channel 0.
C24_NoEviction ==
    /\ [][\A c \in DOMAIN callers :
            /\ UrEnters(c) =>
                   /\ router' = router
                   /\ update_routing_valid(router, callers'[c].lid, callers'[c].i)
                         => callers'[c].pc = "ur_lock"
            /\ UrReturns(c) =>
                   /\ callers'[c].ret = "True"
                   /\ get_routing(router', callers[c].lid) = callers[c].i
                   /\ \A x \in RoutingKeys \ {callers[c].lid} :
                          get_routing(router', x) = get_routing(router, x)
                   /\ DOMAIN router'.routing_map
                          = DOMAIN router.routing_map \cup {callers[c].lid}]_vars
    /\ [](audio.updates = <<(<<1, 2>>), (<<1, 0>>), (<<2, 2>>)>>
            => get_routing(router, 2) = 2 /\ get_routing(router, 1) = 0)

\* channel 2 was held by line 1, line 1 was cleared and line 2 then took
\* channel 2
C24_Witness ==
    /\ audio.updates = <<(<<1, 2>>), (<<1, 0>>), (<<2, 2>>)>>
    /\ router.routing_map = (1 :> 0) @@ (2 :> 2)
    /\ \A c \in DOMAIN callers : callers[c].pc = "idle"

\* the channel of the last update_routing for line l that returned True,
\* -1 if there was none
LastUpdate(l) ==
    LET I == {k \in 1..Len(audio.updates) : audio.updates[k][1] = l}
    IN  IF I = {} THEN -1
        ELSE audio.updates[CHOOSE k \in I : \A j \in I : j <= k][2]

\* C25: for concurrent update_routing calls from different lines no update is
\* lost: once all calls have returned, routing_map[l] is the channel of the
\* last update_routing call for line l that returned True, for every line l.
C25_NoLostUpdate ==
    (\A c \in DOMAIN callers : callers[c].pc = "idle")
        => \A l \in RoutingKeys :
               LastUpdate(l) # -1 => get_routing(router, l) = LastUpdate(l)

\* line 1 held channel 2; both threads were then inside update_routing
\* together, one clearing line 1 and one giving channel 2 to line 2, and both
\* have returned True
C25_Witness ==
    /\ \A c \in DOMAIN callers : callers[c].pc = "idle" /\ callers[c].ret = "True"
    /\ callers["gui"].lid = 1 /\ callers["timer"].lid = 2
    /\ callers["gui"].tried = {2}
    /\ callers["gui"].i = 0 /\ callers["timer"].i = 2
    /\ get_routing(router, 1) = 0 /\ get_routing(router, 2) = 2
    /\ audio.updates = <<(<<1, 2>>), (<<1, 0>>), (<<2, 2>>)>>

\* C26 as stated: update_routing(l, 0) always succeeds: for every line l of
\* the engine and every router state it returns True and routing_map[l] is 0
\* afterwards.
C26_ChannelZeroAlways ==
    [][\A c \in DOMAIN callers :
          /\ (UrEnters(c) /\ callers'[c].lid \in DOMAIN lines /\ callers'[c].i = 0)
                => callers'[c].pc = "ur_lock"
          /\ (UrReturns(c) /\ callers[c].lid \in DOMAIN lines /\ callers[c].i = 0)
                => /\ callers'[c].ret = "True"
                   /\ get_routing(router', callers[c].lid) = 0]_vars

\* C26: on a started router update_routing(l, 0) succeeds for every line l
\* of the engine, whatever the map holds: it returns True and routing_map[l]
\* is 0 afterwards; on a router that is not running it returns False and the
\* map is as before.
C26_ChannelZeroSucceeds ==
    [][\A c \in DOMAIN callers :
          /\ (UrEnters(c) /\ callers'[c].lid \in DOMAIN lines /\ callers'[c].i = 0)
                => /\ router' = router
                   /\ IF router.is_running THEN callers'[c].pc = "ur_lock"
                      ELSE callers'[c].pc = "idle" /\ callers'[c].ret = "False"
          /\ (UrReturns(c) /\ callers[c].lid \in DOMAIN lines /\ callers[c].i = 0)
                => /\ callers'[c].ret = "True"
                   /\ get_routing(router', callers[c].lid) = 0]_vars

\* line 1 was routed to channel 2 and update_routing(1, 0) has returned True
C26_Witness ==
    /\ audio.updates = <<(<<1, 2>>), (<<1, 0>>)>>
    /\ callers["gui"].pc = "idle" /\ callers["gui"].ret = "True"
    /\ callers["gui"].lid = 1 /\ callers["gui"].i = 0
    /\ get_routing(router, 1) = 0

\* ---- the test tone (SpecTone)

\* every start_in_thread thread launched so far has run to its end
TasksDone == \A k \in DOMAIN audio.tasks : audio.tasks[k].pc = "done"

\* C27: start_continuous_tone(4) followed at once by start_continuous_tone(5),
\* with no stop, ends for every interleaving of the two start threads with
\* exactly one tone process alive, playing on channel 5 and recorded as the
\* active tone, the process of channel 4 ended, and at no instant two tone
\* processes alive.
C27_ReplaceInFlight ==
    /\ audio.calls \in {<<4>>, <<4, 5>>} => Cardinality(Alive) <= 1
    /\ (audio.calls = <<4, 5>> /\ TasksDone) =>
          /\ \E p \in Alive :
                /\ Alive = {p}
                /\ audio.procs[p].channel = 5
                /\ router.test_tone_process = p
          /\ router.test_tone_active
          /\ router.test_tone_channel = 5

\* the caller has made a stop before every start
Paired ==
    \A k \in DOMAIN audio.calls :
        audio.calls[k] # 0 => (k > 1 /\ audio.calls[k - 1] = 0)

\* C28: for a caller that precedes every start_continuous_tone with a
\* stop_continuous_tone at most one tone process is alive at every instant,
\* for every scheduling of the start threads.
C28_PairedCaller == Paired => Cardinality(Alive) <= 1

\* the caller has made a start and then a stop, and nothing since
PressRelease ==
    /\ Len(audio.calls) = 2
    /\ audio.calls[1] # 0
    /\ audio.calls[2] = 0

\* no tone process is alive and the router records no tone
NoTone ==
    /\ Alive = {}
    /\ ~router.test_tone_active
    /\ router.test_tone_process = 0
    /\ router.test_tone_channel = 0

\* C29: when start_continuous_tone(c) is followed by stop_continuous_tone()
\* and no later start is made, then in the end no tone process is alive and
\* the router records no active tone, however quickly the stop follows.
C29_PressRelease == (<>[]PressRelease) => (<>[]NoTone)

\* ---- the established event (Spec)

\* C30: a call-established event processed by the monitor thread moves the
\* line to Connected, with call_start_time stamped and call_id set to the
\* supervisor's current_call_id, only if the line is Dialing or Ringing when
\* the transition is applied; in every other state, a Connected line
\* included, the event changes nothing on the line.
C30_EstablishedGuard ==
    [][\A l \in DOMAIN lines :
          /\ (reader[l] = "established" /\ reader'[l] # "established") =>
                /\ lines' = lines
                /\ lines[l].state \notin {DIALING, RINGING} => reader'[l] # "connect"
          /\ (reader[l] = "connect" /\ reader'[l] # "connect") =>
                IF lines[l].state \in {DIALING, RINGING}
                THEN /\ lines'[l].state = CONNECTED
                     /\ lines'[l].call_start_time = now
                     /\ lines'[l].call_id = bp[l].current_call_id
                ELSE lines'[l] = lines[l]]_vars

\* ---- the closed and hangup-confirmed events (Spec)

\* the fields of a line that reset() has just left
IsReset(ln) ==
    /\ ln.state = IDLE
    /\ ln.call_id = None
    /\ ln.remote_number = None
    /\ ln.call_start_time = 0

\* C31: a call-closed or hangup-confirmed event processed by the monitor
\* thread resets the line and clears current_call_id if and only if
\* current_call_id is set when the event is tested; with no call id tracked
\* the event changes neither the line nor the supervisor.
C31_ClosedGuard ==
    [][\A l \in DOMAIN lines :
          /\ (reader[l] \in {"closed", "hangupok"} /\ reader'[l] # reader[l]) =>
                /\ lines' = lines /\ bp' = bp
                /\ reader'[l] = IF Truthy(bp[l].current_call_id)
                                THEN "closed_reset" ELSE "read"
          /\ (reader[l] = "closed_reset" /\ reader'[l] # reader[l]) =>
                /\ reader'[l] = "closed_clear"
                /\ IsReset(lines'[l])
                /\ bp' = bp
          /\ (reader[l] = "closed_clear" /\ reader'[l] # reader[l]) =>
                /\ reader'[l] = "read"
                /\ bp' = [bp EXCEPT ![l].current_call_id = None]
                /\ lines' = lines]_vars

\* a closed event found a call id: the line has been
\* reset and the id is about to be cleared
C31_Witness ==
    /\ reader[1] = "closed_clear"
    /\ Truthy(bp[1].current_call_id)
    /\ IsReset(lines[1])
    /\ lines[1].call_duration = 0
    /\ bp[1].running

\* ---- the call id of the supervisor (Spec)

\* no control thread is inside an operation and the monitor thread of line l
\* is not handling an event
NoOperation(l) ==
    /\ \A c \in DOMAIN callers : callers[c].pc = "idle"
    /\ reader[l] \in {"none", "read", "done", "crashed"}

\* C33: at every instant at which no supervisor operation is in progress on
\* a line, current_call_id equals the line's remote_number while the line is
\* Dialing, Ringing or Connected, and current_call_id is cleared whenever the
\* line is Idle.
C33_CallIdMirrors ==
    \A l \in DOMAIN lines :
        NoOperation(l) =>
            /\ lines[l].state \in Active
                  => bp[l].current_call_id = lines[l].remote_number
            /\ lines[l].state = IDLE => bp[l].current_call_id = None

\* C37: whenever a line is Dialing, Ringing or Connected and its supervisor
\* is running, the supervisor tracks a call id, so that the next call-closed
\* or hangup-confirmed event returns the line to Idle.
C37_ActiveLineTracked ==
    \A l \in DOMAIN lines :
        (lines[l].state \in Active /\ bp[l].running)
            => Truthy(bp[l].current_call_id)

\* ---- the dial command under concurrent calls (SpecRace)

\* thread c writes its dial command to the process in this step
WritesDial(c) == callers[c].pc = "bp_make_call" /\ callers'[c].pc = "mc_set_id"

\* C38: a dial command is written to a line's process only while the line is
\* Idle, and every dial command written is followed by the line entering
\* Dialing with that number: for every interleaving of concurrent make_call
\* calls on one line, at most one dial command is written per accepted call.
C38_OneDialPerCall ==
    [][\A c \in DOMAIN callers :
          /\ WritesDial(c) => lines[callers[c].lid].state = IDLE
          /\ (callers[c].pc = "mc_dial" /\ callers'[c].pc = "idle") =>
                /\ callers'[c].ret = "True"
                /\ lines'[callers[c].lid].state = DIALING
                /\ lines'[callers[c].lid].remote_number = callers[c].num]_vars

\* ---- the states a line shows (Spec)

\* C39: under any sequence of SIPEngine and BaresipProcess operations and
\* monitor thread events no line ever enters Error, and a line is
\* Disconnected only while reset() runs under the line's lock: whenever the
\* lock is free (between any two steps) the state is Idle, Dialing, Ringing
\* or Connected.
C39_VisibleStates ==
    \A l \in DOMAIN lines : lines[l].state \in {IDLE, DIALING, RINGING, CONNECTED}

\* a call was accepted and the process died: the finally clause of the
\* monitor thread has reset the line, through Disconnected, to Idle
C39_Witness ==
    /\ reader[1] = "done"
    /\ os[1] = "exited"
    /\ ~bp[1].running
    /\ lines[1].state = IDLE
    /\ Truthy(bp[1].current_call_id)
    /\ \A c \in DOMAIN callers : callers[c].pc = "idle" /\ callers[c].op = "make_call"

\* ---- the router's map and the lines' channels (SpecApp)

\* C34: after every completed channel change made through the GUI handler
\* (an assignment, a clearing to 0, a conflict confirmed or cancelled)
\* routing_map[l] equals the channel of line l's audio_output for every
\* line l, the line that lost its channel in a confirmed conflict included.
C34_MapMirrorsLines ==
    \A l \in DOMAIN lines : get_routing(router, l) = lines[l].audio_output


\* the processes that a thread inside stop_continuous_tone still has to kill
StopHolds == {callers[c].i : c \in {d \in DOMAIN callers : callers[d].pc = "st_kill"}}

TaskHolds ==
    {audio.tasks[k].old_proc : k \in {j \in DOMAIN audio.tasks : audio.tasks[j].pc = "kill"}}
    \cup {audio.tasks[k].proc : k \in {j \in DOMAIN audio.tasks : audio.tasks[j].pc = "store"}}

\* C36: the recorded tone state is consistent in every state (the lock is free
\* between the steps): the flag is set exactly when a process is recorded and
\* exactly when a channel is recorded, the recorded process is one that was
\* spawned for the recorded channel, and every process that is alive and that
\* no thread is about to kill or to record is the recorded one.
C36_ToneStateConsistent ==
    /\ router.test_tone_active <=> router.test_tone_process # 0
    /\ router.test_tone_active <=> router.test_tone_channel # 0
    /\ router.test_tone_process # 0 =>
          /\ router.test_tone_process \in DOMAIN audio.procs
          /\ audio.procs[router.test_tone_process].channel = router.test_tone_channel
    /\ \A p \in Alive \ (TaskHolds \cup StopHolds) : p = router.test_tone_process


\* C32: a closed or hangup event of a call whose closed or hangup event has
\* already been handled to the end (a duplicate or late event) changes no field
\* of the line and leaves current_call_id alone, also when a new call was
\* dialled on the line in between.
C32_LateEventIgnored ==
    [][\A l \in DOMAIN lines :
          (/\ reader[l] \in {"closed", "hangupok", "closed_reset", "closed_clear"}
           /\ reader'[l] # reader[l]
           /\ pipe[l].ev \in pipe[l].done) =>
              /\ lines'[l] = lines[l]
              /\ bp'[l].current_call_id = bp[l].current_call_id]_vars

====
